---- MODULE Spec2Model ----
(***************************************************************************)
(* Model of the CheersMate backend: the brew service layer                 *)
(* (backend/brew/service.go) and the HTTP handlers that call it, the route  *)
(* dispatch and the shutdown of main.go, and the middleware chain.         *)
(*                                                                         *)
(* A Go string is a sequence of bytes.  A byte is written as a one-letter  *)
(* TLA+ string ("a", "@", " "); the two bytes of the UTF-8 encoding of     *)
(* U+00E9 are written "C3" (lead byte) and "A9" (continuation byte).       *)
(***************************************************************************)
EXTENDS Integers, Sequences, FiniteSets, TLC

VARIABLES
    arg,        \* input of the function applied, or the server's configuration
    result,     \* its result (Pending before it has been applied), or the server
    pc,         \* where the request being served is: idle, wait, classify, fetch, done
    req,        \* the request: who calls (an HTTP client or Go code) and with what
    call,       \* the facade method running: op, name, stage, args, data, fetched
    callerCtx,  \* Err() of the context the facade method was called with
    cmdCtx,     \* Err() of runBrewCommand's cmdCtx
    doneAt,     \* the state the brew process was in when cmdCtx became done
    proc,       \* the brew child process
    waitErr,    \* what cmd.Output() returned
    runs,       \* the runBrewCommand calls that have returned, in order
    argvLog,    \* argument vectors of the commands built for this request
    httpLog,    \* URLs requested from the documentation mirror for this request
    ret,        \* what the facade method returned
    resp,       \* the HTTP responses written for this request
    logs        \* what the server logged for this request

vars == <<arg, result, pc, req, call, callerCtx, cmdCtx, doneAt, proc, waitErr,
          runs, argvLog, httpLog, ret, resp, logs>>

fnVars == <<arg, result>>

srvVars == <<pc, req, call, callerCtx, cmdCtx, doneAt, proc, waitErr,
             runs, argvLog, httpLog, ret, resp, logs>>

(***************************************************************************)
(* Bytes and strings                                                       *)
(***************************************************************************)
Lower == {"a","b","c","d","e","f","g","h","i","j","k","l","m",
          "n","o","p","q","r","s","t","u","v","w","x","y","z"}

Upper == {"A","B","C","D","E","F","G","H","I","J","K","L","M",
          "N","O","P","Q","R","S","T","U","V","W","X","Y","Z"}

Digit == {"0","1","2","3","4","5","6","7","8","9"}

\* the bytes of the two-byte character U+00E9
LeadByte == "C3"

ContByte == "A9"

Min(a, b) == IF a <= b THEN a ELSE b

\* s[:n] of Go: the first n bytes (the code only slices strings longer than n)
Prefix(s, n) == SubSeq(s, 1, n)

\* strings.Repeat
Repeat(s, n) ==
    IF n <= 0 \/ s = <<>> THEN <<>>
    ELSE [i \in 1..(n * Len(s)) |-> s[((i - 1) % Len(s)) + 1]]

ELLIPSIS == <<".", ".", ".">>

\* number of characters (code points) of a UTF-8 string
CharCount(s) == Cardinality({i \in 1..Len(s) : s[i] # ContByte})

\* the first n characters of s (all of s when it has fewer); no character of the
\* model's alphabet is longer than EAcute
FirstChars(s, n) ==
    LET ends == {k \in 0..Min(Len(s), 2 * n) :
                    /\ CharCount(SubSeq(s, 1, k)) <= n
                    /\ (k < Len(s) => s[k + 1] # ContByte)}
        k == CHOOSE e \in ends : \A f \in ends : f <= e
    IN  SubSeq(s, 1, k)

\* a fixed text of the program, kept as one token: it is never built from input
Lit(text) == <<text>>

SPACE == <<" ">>

\* unicode.IsSpace over the bytes the model uses
IsSpace(b) == b \in {" ", "\n", "\t", "\r"}

\* strings.Contains
Contains(s, sub) ==
    \E i \in 1..(Len(s) - Len(sub) + 1) : SubSeq(s, i, i + Len(sub) - 1) = sub

\* strings.HasPrefix
HasPrefix(s, p) == Len(s) >= Len(p) /\ SubSeq(s, 1, Len(p)) = p

UpperSeq == <<"A","B","C","D","E","F","G","H","I","J","K","L","M",
              "N","O","P","Q","R","S","T","U","V","W","X","Y","Z">>

LowerSeq == <<"a","b","c","d","e","f","g","h","i","j","k","l","m",
              "n","o","p","q","r","s","t","u","v","w","x","y","z">>

\* strings.ToLower
ToLower(s) ==
    [i \in 1..Len(s) |->
        IF s[i] \in Upper
        THEN LowerSeq[CHOOSE k \in 1..Len(UpperSeq) : UpperSeq[k] = s[i]]
        ELSE s[i]]

\* strings.TrimSpace
TrimSpace(s) ==
    LET keep == {i \in 1..Len(s) : ~IsSpace(s[i])}
    IN  IF keep = {} THEN <<>>
        ELSE SubSeq(s, CHOOSE i \in keep : \A j \in keep : i <= j,
                       CHOOSE i \in keep : \A j \in keep : j <= i)

\* strings.Split(s, "\n")
RECURSIVE SplitLines(_)
SplitLines(s) ==
    LET nl == {i \in 1..Len(s) : s[i] = "\n"}
    IN  IF nl = {} THEN <<s>>
        ELSE LET i == CHOOSE k \in nl : \A j \in nl : k <= j
             IN  <<SubSeq(s, 1, i - 1)>> \o SplitLines(SubSeq(s, i + 1, Len(s)))

\* strings.Fields
RECURSIVE Fields(_)
Fields(s) ==
    LET ink == {i \in 1..Len(s) : ~IsSpace(s[i])}
    IN  IF ink = {} THEN <<>>
        ELSE LET b == CHOOSE i \in ink : \A j \in ink : i <= j
                 ws == {i \in (b + 1)..Len(s) : IsSpace(s[i])}
                 e == IF ws = {} THEN Len(s) + 1
                      ELSE CHOOSE i \in ws : \A j \in ws : i <= j
             IN  <<SubSeq(s, b, e - 1)>> \o Fields(SubSeq(s, e, Len(s)))

\* strings.Join
RECURSIVE Join(_, _)
Join(parts, sep) ==
    IF parts = <<>> THEN <<>>
    ELSE IF Len(parts) = 1 THEN parts[1]
    ELSE parts[1] \o sep \o Join(Tail(parts), sep)

(***************************************************************************)
(* Input validation (service.go, validatePackageName)                      *)
(***************************************************************************)
maxPackageNameLength == 128

ValueEchoLen == 20

\* the character classes of packageNameRegex
HeadClass == Lower \cup Upper \cup Digit

TailClass == HeadClass \cup {"@", ".", "_", "+", "-"}

\* packageNameRegex.MatchString: ^[a-zA-Z0-9][a-zA-Z0-9@._+-]*$ over the bytes
packageNameRegex(s) ==
    /\ Len(s) >= 1
    /\ s[1] \in HeadClass
    /\ \A i \in 2..Len(s) : s[i] \in TailClass

NoError == [kind |-> "nil"]

ValidationError(field, value, message) ==
    [kind |-> "ValidationError", field |-> field, value |-> value,
     message |-> message]

MsgRequired == "package name is required"

MsgTooLong == "package name exceeds maximum length of 128"

MsgBadChars ==
    "package name contains invalid characters; must match pattern: ^[a-zA-Z0-9][a-zA-Z0-9@._+-]*$"

validatePackageNameOffByOne(name) ==
    IF name = <<>> THEN ValidationError("name", <<>>, MsgRequired)
    ELSE IF Len(name) >= maxPackageNameLength
         THEN ValidationError("name", Prefix(name, ValueEchoLen) \o ELLIPSIS, MsgTooLong)
    ELSE IF ~packageNameRegex(name)
         THEN ValidationError("name", name, MsgBadChars)
    ELSE NoError

validatePackageName(name) ==
    IF name = <<>> THEN ValidationError("name", <<>>, MsgRequired)
    ELSE IF Len(name) > maxPackageNameLength
         THEN ValidationError("name", Prefix(name, ValueEchoLen) \o ELLIPSIS, MsgTooLong)
    ELSE IF ~packageNameRegex(name)
         THEN ValidationError("name", name, MsgBadChars)
    ELSE NoError

\* validateServiceAction
validateServiceAction(action) ==
    IF action \in {Lit("start"), Lit("stop"), Lit("restart")} THEN NoError
    ELSE [kind |-> "ValidationError", field |-> "action", value |-> action,
          message |-> "action must be one of: start, stop, restart"]

(***************************************************************************)
(* Go values: errors, slices, process output                               *)
(***************************************************************************)
\* An error is the chain errors.As walks: the error itself, then what Unwrap
\* returns, and so on.  nil is the empty chain.
Nil == <<>>

ErrOf(v) == IF v = NoError THEN Nil ELSE <<v>>

\* errors.As(err, &target) for a target of the named type
ErrorsAs(err, kind) == \E i \in 1..Len(err) : err[i].kind = kind

AsTarget(err, kind) ==
    err[CHOOSE i \in 1..Len(err) :
            /\ err[i].kind = kind
            /\ \A j \in 1..(i - 1) : err[j].kind # kind]

\* fmt.Errorf("...: %w", err)
Wrap(prefix, err) == <<[kind |-> "wrapError", prefix |-> prefix]>> \o err

\* a nil slice and a non-nil one are different values (JSON null and [])
NilSlice == [isNil |-> TRUE, elems |-> <<>>]

Slice(elems) == [isNil |-> FALSE, elems |-> elems]

append(s, x) == [isNil |-> FALSE, elems |-> Append(s.elems, x)]

\* the bytes a process wrote, either free text or a JSON document of a known shape
Text(s) == [kind |-> "text", text |-> s]

NoOutput == Text(<<>>)

\* string(output)
StringOf(output) == output.text

(***************************************************************************)
(* Output parsers (service.go)                                             *)
(***************************************************************************)
WarningHdr == <<"W","a","r","n","i","n","g",":">>

ErrorHdr == <<"E","r","r","o","r",":">>

errorWord == <<"e","r","r","o","r">>

DoctorIssueCaseSensitive(currentIssue) ==
    [type |-> IF Contains(currentIssue, errorWord) THEN "error" ELSE "warning",
     message |-> currentIssue]

DoctorIssue(currentIssue) ==
    [type |-> IF Contains(ToLower(currentIssue), errorWord) THEN "error" ELSE "warning",
     message |-> currentIssue]

RECURSIVE doctorLinesKeepLoose(_, _, _, _)
doctorLinesKeepLoose(lines, i, issues, currentIssue) ==
    IF i > Len(lines)
    THEN IF currentIssue # <<>> THEN append(issues, DoctorIssue(currentIssue)) ELSE issues
    ELSE LET line == TrimSpace(lines[i])
         IN  IF line = <<>>
             THEN IF currentIssue # <<>>
                  THEN doctorLinesKeepLoose(lines, i + 1,
                                            append(issues, DoctorIssue(currentIssue)), <<>>)
                  ELSE doctorLinesKeepLoose(lines, i + 1, issues, currentIssue)
             ELSE IF HasPrefix(line, WarningHdr) \/ HasPrefix(line, ErrorHdr)
             THEN doctorLinesKeepLoose(lines, i + 1,
                                       IF currentIssue # <<>>
                                       THEN append(issues, DoctorIssue(currentIssue))
                                       ELSE issues,
                                       line)
             ELSE IF currentIssue # <<>>
             THEN doctorLinesKeepLoose(lines, i + 1, issues, currentIssue \o SPACE \o line)
             ELSE doctorLinesKeepLoose(lines, i + 1, issues, line)

RECURSIVE doctorLines(_, _, _, _)
doctorLines(lines, i, issues, currentIssue) ==
    IF i > Len(lines)
    THEN IF currentIssue # <<>> THEN append(issues, DoctorIssue(currentIssue)) ELSE issues
    ELSE LET line == TrimSpace(lines[i])
         IN  IF line = <<>>
             THEN IF currentIssue # <<>>
                  THEN doctorLines(lines, i + 1, append(issues, DoctorIssue(currentIssue)), <<>>)
                  ELSE doctorLines(lines, i + 1, issues, currentIssue)
             ELSE IF HasPrefix(line, WarningHdr) \/ HasPrefix(line, ErrorHdr)
             THEN doctorLines(lines, i + 1,
                              IF currentIssue # <<>>
                              THEN append(issues, DoctorIssue(currentIssue))
                              ELSE issues,
                              line)
             ELSE IF currentIssue # <<>>
             THEN doctorLines(lines, i + 1, issues, currentIssue \o SPACE \o line)
             ELSE doctorLines(lines, i + 1, issues, currentIssue)

parseDoctorOutput(output) == doctorLines(SplitLines(output), 1, NilSlice, <<>>)

ArrowTok == <<"=","=",">">>

FormulaeTok == <<"F","o","r","m","u","l","a","e">>

CasksTok == <<"C","a","s","k","s">>

RECURSIVE searchFieldsNoSeen(_, _, _)
searchFieldsNoSeen(fields, i, results) ==
    IF i > Len(fields) THEN results
    ELSE LET field == fields[i]
         IN  IF field \in {ArrowTok, FormulaeTok, CasksTok}
             THEN searchFieldsNoSeen(fields, i + 1, results)
             ELSE searchFieldsNoSeen(fields, i + 1, append(results, field))

RECURSIVE searchFields(_, _, _)
searchFields(fields, i, results) ==
    IF i > Len(fields) THEN results
    ELSE LET field == fields[i]
         IN  IF field \in {ArrowTok, FormulaeTok, CasksTok}
             THEN searchFields(fields, i + 1, results)
             ELSE IF \E k \in 1..Len(results.elems) : results.elems[k] = field
             THEN searchFields(fields, i + 1, results)
             ELSE searchFields(fields, i + 1, append(results, field))

parseSearchOutput(output) == searchFields(Fields(output), 1, NilSlice)

(***************************************************************************)
(* Process runner (service.go, runBrewCommand)                             *)
(***************************************************************************)
\* DefaultConfig().CommandTimeout, in seconds
CommandTimeout == 300

StderrLimit == 1024

TruncMark == Lit("... (truncated)")

TimeoutError(command, timeout) ==
    [kind |-> "TimeoutError", command |-> command, timeout |-> timeout]

CommandError(command, args, stderr) ==
    [kind |-> "CommandError", command |-> command, args |-> args, stderr |-> stderr]

\* what cmd.Output() can return besides nil: the process's exit status with the
\* stderr it captured, a failure to start the binary, or the context's error
ExitError(code, stderr) == [kind |-> "ExitError", code |-> code, stderr |-> stderr]

ExecError == [kind |-> "exec.Error"]

CtxError(e) == [kind |-> "ctxError", err |-> e]

\* runBrewCommand from the return of cmd.Output(): w is (output, err) and ctxErr
\* is what cmdCtx.Err() returns when the code reads it
classifyNoTimeout(args, w, ctxErr) ==
    IF w.err = Nil THEN [output |-> w.output, err |-> Nil]
    ELSE LET e == w.err[1]
             stderr == IF e.kind = "ExitError"
                       THEN IF Len(e.stderr) > StderrLimit
                            THEN Prefix(e.stderr, StderrLimit) \o TruncMark
                            ELSE e.stderr
                       ELSE <<>>
         IN  [output |-> NoOutput,
              err |-> <<CommandError(args[1], Tail(args), stderr)>> \o w.err]

classifyByExit(args, w, ctxErr) ==
    IF w.err = Nil THEN [output |-> w.output, err |-> Nil]
    ELSE IF w.err[1].kind # "ExitError"
    THEN [output |-> NoOutput,
          err |-> <<TimeoutError(Join(args, SPACE), CommandTimeout)>>]
    ELSE classifyNoTimeout(args, w, ctxErr)

classify(args, w, ctxErr) ==
    IF w.err = Nil THEN [output |-> w.output, err |-> Nil]
    ELSE IF ctxErr = "DeadlineExceeded"
    THEN [output |-> NoOutput,
          err |-> <<TimeoutError(Join(args, SPACE), CommandTimeout)>>]
    ELSE LET e == w.err[1]
             stderr == IF e.kind = "ExitError"
                       THEN IF Len(e.stderr) > StderrLimit
                            THEN Prefix(e.stderr, StderrLimit) \o TruncMark
                            ELSE e.stderr
                       ELSE <<>>
         IN  [output |-> NoOutput,
              err |-> <<CommandError(args[1], Tail(args), stderr)>> \o w.err]

(***************************************************************************)
(* JSON documents brew prints, and their decoding                          *)
(***************************************************************************)
\* {"formulae": [...], "casks": [...]}; a package object carries the keys the
\* Package struct declares
InfoDoc(formulae, casks) == [kind |-> "info", formulae |-> formulae, casks |-> casks]

\* [{"name": ..., "status": ..., "user": ..., "file": ...}, ...]
ServicesDoc(entries) == [kind |-> "services", entries |-> entries]

\* the error json.Unmarshal returns
JsonError == <<[kind |-> "jsonError"]>>

\* json.Unmarshal(output, &v) succeeds when the document has the shape of v
DecodesAs(output, shape) == output.kind = shape

\* time.Unix(sec, 0).Format(time.RFC3339)
FormatRFC3339(sec) == [layout |-> "RFC3339", unix |-> sec]

NoDate == [layout |-> "", unix |-> 0]

(***************************************************************************)
(* Operation facade (service.go).  An operation runs until it returns or   *)
(* until it waits for a brew process or for the documentation mirror;      *)
(* stage counts the waits it has behind it and rr is what the last one     *)
(* returned.                                                               *)
(***************************************************************************)
Return(val, err) == [k |-> "ret", val |-> val, err |-> err]

Call(args, data) == [k |-> "brew", args |-> args, data |-> data]

Fetch(url, data) == [k |-> "fetch", url |-> url, data |-> data]

\* no value: the method returns only an error
NoVal == [none |-> TRUE]

\* an int64 value
Int64(n) == [int64 |-> n]

withInstallDate(pkg, isCask) ==
    LET p == [pkg EXCEPT !.is_cask = isCask]
    IN  IF Len(p.installed) > 0 /\ p.installed[1].time > 0
        THEN [p EXCEPT !.install_date = FormatRFC3339(p.installed[1].time)]
        ELSE p

ListInstalledCasksFirst(stage, rr) ==
    IF stage = 0
    THEN Call(<<Lit("info"), Lit("--installed"), Lit("--json=v2")>>, NoVal)
    ELSE IF rr.err # Nil THEN Return(NilSlice, rr.err)
    ELSE IF ~DecodesAs(rr.output, "info")
    THEN Return(NilSlice, Wrap("failed to parse brew info output", JsonError))
    ELSE LET F == rr.output.formulae
             C == rr.output.casks
         IN  Return(Slice([i \in 1..Len(C) |-> withInstallDate(C[i], TRUE)]
                          \o [i \in 1..Len(F) |-> withInstallDate(F[i], FALSE)]),
                    Nil)

ListInstalled(stage, rr) ==
    IF stage = 0
    THEN Call(<<Lit("info"), Lit("--installed"), Lit("--json=v2")>>, NoVal)
    ELSE IF rr.err # Nil THEN Return(NilSlice, rr.err)
    ELSE IF ~DecodesAs(rr.output, "info")
    THEN Return(NilSlice, Wrap("failed to parse brew info output", JsonError))
    ELSE LET F == rr.output.formulae
             C == rr.output.casks
         IN  Return(Slice([i \in 1..Len(F) |-> withInstallDate(F[i], FALSE)]
                          \o [i \in 1..Len(C) |-> withInstallDate(C[i], TRUE)]),
                    Nil)

isCommandErrorHead(err) == err # Nil /\ err[1].kind = "CommandError"

UpgradePackageIgnoreFailure(name, stage, rr) ==
    IF stage = 0
    THEN IF validatePackageName(name) # NoError
         THEN Return(NoVal, ErrOf(validatePackageName(name)))
         ELSE Call(<<Lit("upgrade"), name>>, NoVal)
    ELSE IF isCommandErrorHead(rr.err) THEN Return(NoVal, Nil)
    ELSE Return(NoVal, rr.err)

UpgradePackage(name, stage, rr) ==
    IF stage = 0
    THEN IF validatePackageName(name) # NoError
         THEN Return(NoVal, ErrOf(validatePackageName(name)))
         ELSE Call(<<Lit("upgrade"), name>>, NoVal)
    ELSE Return(NoVal, rr.err)

UninstallPackage(name, stage, rr) ==
    IF stage = 0
    THEN IF validatePackageName(name) # NoError
         THEN Return(NoVal, ErrOf(validatePackageName(name)))
         ELSE Call(<<Lit("uninstall"), name>>, NoVal)
    ELSE Return(NoVal, rr.err)

ReinstallPackage(name, stage, rr) ==
    IF stage = 0
    THEN IF validatePackageName(name) # NoError
         THEN Return(NoVal, ErrOf(validatePackageName(name)))
         ELSE Call(<<Lit("reinstall"), name>>, NoVal)
    ELSE Return(NoVal, rr.err)

PinPackage(name, stage, rr) ==
    IF stage = 0
    THEN IF validatePackageName(name) # NoError
         THEN Return(NoVal, ErrOf(validatePackageName(name)))
         ELSE Call(<<Lit("pin"), name>>, NoVal)
    ELSE Return(NoVal, rr.err)

UnpinPackage(name, stage, rr) ==
    IF stage = 0
    THEN IF validatePackageName(name) # NoError
         THEN Return(NoVal, ErrOf(validatePackageName(name)))
         ELSE Call(<<Lit("unpin"), name>>, NoVal)
    ELSE Return(NoVal, rr.err)

InstallPackageSkipValidation(name, stage, rr) ==
    IF stage = 0
    THEN Call(<<Lit("install"), name>>, NoVal)
    ELSE Return(NoVal, rr.err)

InstallPackageJoined(name, stage, rr) ==
    IF stage = 0
    THEN IF validatePackageName(name) # NoError
         THEN Return(NoVal, ErrOf(validatePackageName(name)))
         ELSE Call(<<Lit("install") \o SPACE \o name>>, NoVal)
    ELSE Return(NoVal, rr.err)

InstallPackage(name, stage, rr) ==
    IF stage = 0
    THEN IF validatePackageName(name) # NoError
         THEN Return(NoVal, ErrOf(validatePackageName(name)))
         ELSE Call(<<Lit("install"), name>>, NoVal)
    ELSE Return(NoVal, rr.err)

Update(stage, rr) ==
    IF stage = 0 THEN Call(<<Lit("update")>>, NoVal)
    ELSE IF rr.err # Nil THEN Return(<<>>, rr.err)
    ELSE Return(StringOf(rr.output), Nil)

Cleanup(stage, rr) ==
    IF stage = 0 THEN Call(<<Lit("cleanup"), Lit("--prune=all")>>, NoVal)
    ELSE IF rr.err # Nil THEN Return(<<>>, rr.err)
    ELSE Return(StringOf(rr.output), Nil)

DoctorResult(output, issues) == [output |-> output, issues |-> issues]

DoctorPropagateAll(stage, rr) ==
    IF stage = 0 THEN Call(<<Lit("doctor")>>, NoVal)
    ELSE IF rr.err # Nil THEN Return(DoctorResult(<<>>, NilSlice), rr.err)
    ELSE Return(DoctorResult(StringOf(rr.output), parseDoctorOutput(StringOf(rr.output))),
                Nil)

Doctor(stage, rr) ==
    IF stage = 0 THEN Call(<<Lit("doctor")>>, NoVal)
    ELSE IF rr.err # Nil /\ ~ErrorsAs(rr.err, "CommandError")
    THEN Return(DoctorResult(<<>>, NilSlice), rr.err)
    ELSE LET outputStr == IF ErrorsAs(rr.err, "CommandError")
                          THEN AsTarget(rr.err, "CommandError").stderr
                          ELSE StringOf(rr.output)
         IN  Return(DoctorResult(outputStr, parseDoctorOutput(outputStr)), Nil)

GetPackageSize(name, stage, rr) ==
    IF stage = 0
    THEN IF validatePackageName(name) # NoError
         THEN Return(Int64(0), ErrOf(validatePackageName(name)))
         ELSE Call(<<Lit("info"), Lit("--json=v2"), name>>, NoVal)
    ELSE IF rr.err # Nil THEN Return(Int64(0), rr.err)
    ELSE IF ~DecodesAs(rr.output, "info") THEN Return(Int64(0), JsonError)
    ELSE IF Len(rr.output.formulae) > 0 THEN Return(Int64(rr.output.formulae[1].installed_size), Nil)
    ELSE IF Len(rr.output.casks) > 0 THEN Return(Int64(rr.output.casks[1].installed_size), Nil)
    ELSE Return(Int64(0), Nil)

\* homepageMap[name] after the loop over packages: the last package of that
\* name wins, and a missing key reads as ""
homepageOf(packages, name) ==
    LET hits == {i \in 1..Len(packages) : packages[i].name = name}
    IN  IF hits = {} THEN <<>>
        ELSE packages[CHOOSE i \in hits : \A j \in hits : j <= i].homepage

ListServicesStrict(stage, rr, data) ==
    IF stage = 0
    THEN Call(<<Lit("services"), Lit("list"), Lit("--json")>>, NoVal)
    ELSE IF stage = 1
    THEN IF rr.err # Nil THEN Return(NilSlice, rr.err)
         ELSE IF ~DecodesAs(rr.output, "services")
         THEN Return(NilSlice, Wrap("failed to parse brew services output", JsonError))
         ELSE Call(ListInstalled(0, rr).args, rr.output.entries)
    ELSE LET listed == ListInstalled(1, rr)
         IN  IF listed.err # Nil THEN Return(NilSlice, listed.err)
             ELSE Return(Slice([i \in 1..Len(data) |->
                                  [name |-> data[i].name,
                                   status |-> data[i].status,
                                   user |-> data[i].user,
                                   plist |-> data[i].file,
                                   running |-> (data[i].status = Lit("started")),
                                   homepage |-> homepageOf(listed.val.elems, data[i].name)]]),
                        Nil)

ListServicesFoldCase(stage, rr, data) ==
    IF stage = 0
    THEN Call(<<Lit("services"), Lit("list"), Lit("--json")>>, NoVal)
    ELSE IF stage = 1
    THEN IF rr.err # Nil THEN Return(NilSlice, rr.err)
         ELSE IF ~DecodesAs(rr.output, "services")
         THEN Return(NilSlice, Wrap("failed to parse brew services output", JsonError))
         ELSE Call(ListInstalled(0, rr).args, rr.output.entries)
    ELSE LET listed == ListInstalled(1, rr)
             packages == IF listed.err = Nil THEN listed.val.elems ELSE <<>>
         IN  Return(Slice([i \in 1..Len(data) |->
                              [name |-> data[i].name,
                               status |-> data[i].status,
                               user |-> data[i].user,
                               plist |-> data[i].file,
                               running |-> (data[i].status \in {Lit("started"), Lit("Started")}),
                               homepage |-> homepageOf(packages, data[i].name)]]),
                    Nil)

ListServices(stage, rr, data) ==
    IF stage = 0
    THEN Call(<<Lit("services"), Lit("list"), Lit("--json")>>, NoVal)
    ELSE IF stage = 1
    THEN IF rr.err # Nil THEN Return(NilSlice, rr.err)
         ELSE IF ~DecodesAs(rr.output, "services")
         THEN Return(NilSlice, Wrap("failed to parse brew services output", JsonError))
         ELSE Call(ListInstalled(0, rr).args, rr.output.entries)
    ELSE LET listed == ListInstalled(1, rr)
             packages == IF listed.err = Nil THEN listed.val.elems ELSE <<>>
         IN  Return(Slice([i \in 1..Len(data) |->
                              [name |-> data[i].name,
                               status |-> data[i].status,
                               user |-> data[i].user,
                               plist |-> data[i].file,
                               running |-> (data[i].status = Lit("started")),
                               homepage |-> homepageOf(packages, data[i].name)]]),
                    Nil)

StartService(name, stage, rr) ==
    IF stage = 0
    THEN IF validatePackageName(name) # NoError
         THEN Return(NoVal, ErrOf(validatePackageName(name)))
         ELSE Call(<<Lit("services"), Lit("start"), name>>, NoVal)
    ELSE Return(NoVal, rr.err)

StopService(name, stage, rr) ==
    IF stage = 0
    THEN IF validatePackageName(name) # NoError
         THEN Return(NoVal, ErrOf(validatePackageName(name)))
         ELSE Call(<<Lit("services"), Lit("stop"), name>>, NoVal)
    ELSE Return(NoVal, rr.err)

RestartService(name, stage, rr) ==
    IF stage = 0
    THEN IF validatePackageName(name) # NoError
         THEN Return(NoVal, ErrOf(validatePackageName(name)))
         ELSE Call(<<Lit("services"), Lit("restart"), name>>, NoVal)
    ELSE Return(NoVal, rr.err)

\* isCommandError: a type assertion on err itself, no unwrapping
isCommandError(err) == err # Nil /\ err[1].kind = "CommandError"

SearchRejectEmpty(query, stage, rr) ==
    IF stage = 0
    THEN IF query = <<>>
         THEN Return(NilSlice,
                     <<[kind |-> "ValidationError", field |-> "query",
                        value |-> <<>>, message |-> "search query is required"]>>)
         ELSE IF Len(query) > maxPackageNameLength
         THEN Return(NilSlice,
                     <<[kind |-> "ValidationError", field |-> "query",
                        value |-> Prefix(query, ValueEchoLen) \o ELLIPSIS,
                        message |-> "search query too long"]>>)
         ELSE Call(<<Lit("search"), query>>, NoVal)
    ELSE IF rr.err # Nil
    THEN IF isCommandError(rr.err) THEN Return(Slice(<<>>), Nil)
         ELSE Return(NilSlice, rr.err)
    ELSE Return(parseSearchOutput(StringOf(rr.output)), Nil)

SearchSwallowAll(query, stage, rr) ==
    IF stage = 0
    THEN IF query = <<>> THEN Return(NilSlice, Nil)
         ELSE IF Len(query) > maxPackageNameLength
         THEN Return(NilSlice,
                     <<[kind |-> "ValidationError", field |-> "query",
                        value |-> Prefix(query, ValueEchoLen) \o ELLIPSIS,
                        message |-> "search query too long"]>>)
         ELSE Call(<<Lit("search"), query>>, NoVal)
    ELSE IF rr.err # Nil THEN Return(Slice(<<>>), Nil)
    ELSE Return(parseSearchOutput(StringOf(rr.output)), Nil)

Search(query, stage, rr) ==
    IF stage = 0
    THEN IF query = <<>> THEN Return(NilSlice, Nil)
         ELSE IF Len(query) > maxPackageNameLength
         THEN Return(NilSlice,
                     <<[kind |-> "ValidationError", field |-> "query",
                        value |-> Prefix(query, ValueEchoLen) \o ELLIPSIS,
                        message |-> "search query too long"]>>)
         ELSE Call(<<Lit("search"), query>>, NoVal)
    ELSE IF rr.err # Nil
    THEN IF isCommandError(rr.err) THEN Return(Slice(<<>>), Nil)
         ELSE Return(NilSlice, rr.err)
    ELSE Return(parseSearchOutput(StringOf(rr.output)), Nil)

UnknownTopic == <<"U","n","k","n","o","w","n"," ","t","o","p","i","c">>

ApologyText == Lit("No usage examples found. 'brew info' also failed.")

InfoPreamble == Lit("No community cheat sheet found. Showing 'brew info' output:\n\n")

CheatURL(name) == Lit("https://cheat.sh/") \o name \o Lit("?T")

GetPackageUsagePropagate(name, stage, rr) ==
    IF stage = 0
    THEN IF validatePackageName(name) # NoError
         THEN Return(<<>>, ErrOf(validatePackageName(name)))
         ELSE Fetch(CheatURL(name), NoVal)
    ELSE IF stage = 1
    THEN IF rr.err = Nil /\ rr.body # <<>> /\ ~Contains(rr.body, UnknownTopic)
         THEN Return(rr.body, Nil)
         ELSE Call(<<Lit("info"), name>>, NoVal)
    ELSE IF rr.err # Nil THEN Return(<<>>, rr.err)
    ELSE Return(InfoPreamble \o StringOf(rr.output), Nil)

GetPackageUsage(name, stage, rr) ==
    IF stage = 0
    THEN IF validatePackageName(name) # NoError
         THEN Return(<<>>, ErrOf(validatePackageName(name)))
         ELSE Fetch(CheatURL(name), NoVal)
    ELSE IF stage = 1
    THEN IF rr.err = Nil /\ rr.body # <<>> /\ ~Contains(rr.body, UnknownTopic)
         THEN Return(rr.body, Nil)
         ELSE Call(<<Lit("info"), name>>, NoVal)
    ELSE IF rr.err # Nil THEN Return(ApologyText, Nil)
    ELSE Return(InfoPreamble \o StringOf(rr.output), Nil)

\* fetchCheatSheet from the reply of httpClient.Do: a transport error, or a
\* status and a body of which at most 64 KiB are read
CheatSheetLimit == 65536

fetchCheatSheet(reply) ==
    IF reply.failed THEN [body |-> <<>>, err |-> <<[kind |-> "transportError"]>>]
    ELSE IF reply.status # 200
    THEN [body |-> <<>>, err |-> <<[kind |-> "statusError", status |-> reply.status]>>]
    ELSE [body |-> Prefix(reply.body, Min(Len(reply.body), CheatSheetLimit)), err |-> Nil]

FacadeOps ==
    {"ListInstalled", "UpgradePackage", "UninstallPackage", "ReinstallPackage",
     "PinPackage", "UnpinPackage", "InstallPackage", "Update", "Cleanup", "Doctor",
     "GetPackageSize", "ListServices", "StartService", "StopService",
     "RestartService", "Search", "GetPackageUsage"}

\* the facade operations that take a package or service name
NameOps ==
    {"UpgradePackage", "UninstallPackage", "ReinstallPackage", "PinPackage",
     "UnpinPackage", "InstallPackage", "GetPackageSize", "StartService",
     "StopService", "RestartService", "GetPackageUsage"}

\* the method of *ServiceManager that c names, at stage c.stage
Facade(c, rr) ==
    CASE c.op = "ListInstalled" -> ListInstalled(c.stage, rr)
      [] c.op = "UpgradePackage" -> UpgradePackage(c.name, c.stage, rr)
      [] c.op = "UninstallPackage" -> UninstallPackage(c.name, c.stage, rr)
      [] c.op = "ReinstallPackage" -> ReinstallPackage(c.name, c.stage, rr)
      [] c.op = "PinPackage" -> PinPackage(c.name, c.stage, rr)
      [] c.op = "UnpinPackage" -> UnpinPackage(c.name, c.stage, rr)
      [] c.op = "InstallPackage" -> InstallPackage(c.name, c.stage, rr)
      [] c.op = "Update" -> Update(c.stage, rr)
      [] c.op = "Cleanup" -> Cleanup(c.stage, rr)
      [] c.op = "Doctor" -> Doctor(c.stage, rr)
      [] c.op = "GetPackageSize" -> GetPackageSize(c.name, c.stage, rr)
      [] c.op = "ListServices" -> ListServices(c.stage, rr, c.data)
      [] c.op = "StartService" -> StartService(c.name, c.stage, rr)
      [] c.op = "StopService" -> StopService(c.name, c.stage, rr)
      [] c.op = "RestartService" -> RestartService(c.name, c.stage, rr)
      [] c.op = "Search" -> Search(c.name, c.stage, rr)
      [] c.op = "GetPackageUsage" -> GetPackageUsage(c.name, c.stage, rr)

(***************************************************************************)
(* HTTP layer (package api: handlers)                                      *)
(***************************************************************************)
\* writeJSON: one WriteHeader(status) followed by the encoded body
writeJSON(status, data) == [status |-> status, body |-> data]

APIError(message, code, details) ==
    [type |-> "APIError", error |-> message, code |-> code, details |-> details]

NoDetails == <<>>

writeError(status, code, message) == writeJSON(status, APIError(message, code, NoDetails))

writeErrorWithDetails(status, code, message, details) ==
    writeJSON(status, APIError(message, code, details))

\* what a handler does before it returns: the responses it writes and the
\* lines it logs
Respond(writes, logged) == [k |-> "respond", writes |-> writes, logged |-> logged]

\* a handler calling a method of the facade
Invoke(op, name) == [k |-> "invoke", op |-> op, name |-> name]

\* (*CommandError).Error(), as log.Printf("Brew command error: %v") prints it
CommandErrorText(e, cause) ==
    Lit("brew ") \o e.command \o Lit(" failed: ") \o Lit(cause)
        \o Lit(" (stderr: ") \o e.stderr \o Lit(")")

\* the error a CommandError wraps, by name ("<nil>" when it wraps none)
CauseOf(err, i) == IF i < Len(err) THEN err[i + 1].kind ELSE "<nil>"

TimeoutMessage == Lit("Operation timed out. The Homebrew command took too long to complete.")

CommandFailedMessage == Lit("Homebrew command failed. Check server logs for details.")

UnexpectedMessage == Lit("An unexpected error occurred.")

handleBrewErrorLeaky(err) ==
    IF err = Nil THEN Respond(<<>>, <<>>)
    ELSE IF ErrorsAs(err, "ValidationError")
    THEN Respond(<<writeErrorWithDetails(400, "VALIDATION_ERROR",
                        Lit(AsTarget(err, "ValidationError").message),
                        <<<<"field", AsTarget(err, "ValidationError").field>>>>)>>, <<>>)
    ELSE IF ErrorsAs(err, "TimeoutError")
    THEN Respond(<<writeError(504, "TIMEOUT", TimeoutMessage)>>, <<>>)
    ELSE IF ErrorsAs(err, "CommandError")
    THEN LET i == CHOOSE k \in 1..Len(err) : err[k] = AsTarget(err, "CommandError")
         IN  Respond(<<writeError(500, "INTERNAL_ERROR",
                                  CommandErrorText(err[i], CauseOf(err, i)))>>,
                     <<Lit("Brew command error: ") \o CommandErrorText(err[i], CauseOf(err, i))>>)
    ELSE Respond(<<writeError(500, "INTERNAL_ERROR", UnexpectedMessage)>>,
                 <<Lit("Unexpected error: ") \o Lit(err[1].kind)>>)

handleBrewErrorTimeoutFirst(err) ==
    IF err = Nil THEN Respond(<<>>, <<>>)
    ELSE IF ErrorsAs(err, "TimeoutError") \/ ErrorsAs(err, "CommandError")
    THEN Respond(<<writeError(504, "TIMEOUT", TimeoutMessage)>>, <<>>)
    ELSE IF ErrorsAs(err, "ValidationError")
    THEN Respond(<<writeErrorWithDetails(400, "VALIDATION_ERROR",
                        Lit(AsTarget(err, "ValidationError").message),
                        <<<<"field", AsTarget(err, "ValidationError").field>>>>)>>, <<>>)
    ELSE Respond(<<writeError(500, "INTERNAL_ERROR", UnexpectedMessage)>>,
                 <<Lit("Unexpected error: ") \o Lit(err[1].kind)>>)

handleBrewError(err) ==
    IF err = Nil THEN Respond(<<>>, <<>>)
    ELSE IF ErrorsAs(err, "ValidationError")
    THEN Respond(<<writeErrorWithDetails(400, "VALIDATION_ERROR",
                        Lit(AsTarget(err, "ValidationError").message),
                        <<<<"field", AsTarget(err, "ValidationError").field>>>>)>>, <<>>)
    ELSE IF ErrorsAs(err, "TimeoutError")
    THEN Respond(<<writeError(504, "TIMEOUT", TimeoutMessage)>>, <<>>)
    ELSE IF ErrorsAs(err, "CommandError")
    THEN LET i == CHOOSE k \in 1..Len(err) : err[k] = AsTarget(err, "CommandError")
         IN  Respond(<<writeError(500, "INTERNAL_ERROR", CommandFailedMessage)>>,
                     <<Lit("Brew command error: ") \o CommandErrorText(err[i], CauseOf(err, i))>>)
    ELSE Respond(<<writeError(500, "INTERNAL_ERROR", UnexpectedMessage)>>,
                 <<Lit("Unexpected error: ") \o Lit(err[1].kind)>>)

\* checkMethod: <<>> when the method is allowed, else the 405 it writes
checkMethod(r, allowed) ==
    IF \E i \in 1..Len(allowed) : allowed[i] = r.method THEN <<>>
    ELSE <<writeError(405, "METHOD_NOT_ALLOWED",
                      Lit("Method ") \o Lit(r.method) \o Lit(" not allowed. Use: ")
                          \o Join([i \in 1..Len(allowed) |-> Lit(allowed[i])], Lit(", ")))>>

NameRequired == Lit("Query parameter 'name' is required")

PackageActionResponse(status, package, action) ==
    [type |-> "PackageActionResponse", status |-> status, package |-> package,
     action |-> action]

\* the shape UpgradePackage, UninstallPackage and ReinstallPackage share
packageAction(r, stage, fr, method, op, done) ==
    IF stage = 0
    THEN IF checkMethod(r, <<method, "OPTIONS">>) # <<>>
         THEN Respond(checkMethod(r, <<method, "OPTIONS">>), <<>>)
         ELSE IF r.method = "OPTIONS" THEN Respond(<<>>, <<>>)
         ELSE IF r.name = <<>>
         THEN Respond(<<writeError(400, "VALIDATION_ERROR", NameRequired)>>, <<>>)
         ELSE Invoke(op, r.name)
    ELSE IF fr.err # Nil THEN handleBrewError(fr.err)
    ELSE Respond(<<writeJSON(200, PackageActionResponse("success", r.name, Lit(done)))>>, <<>>)

H_ListPackages(r, stage, fr) ==
    IF stage = 0
    THEN IF checkMethod(r, <<"GET">>) # <<>> THEN Respond(checkMethod(r, <<"GET">>), <<>>)
         ELSE Invoke("ListInstalled", <<>>)
    ELSE IF fr.err # Nil THEN handleBrewError(fr.err)
    ELSE Respond(<<writeJSON(200, [type |-> "packages", list |-> fr.val])>>, <<>>)

H_UpgradePackage(r, stage, fr) ==
    packageAction(r, stage, fr, "POST", "UpgradePackage", "upgraded")

H_UninstallPackage(r, stage, fr) ==
    packageAction(r, stage, fr, "DELETE", "UninstallPackage", "uninstalled")

H_ReinstallPackage(r, stage, fr) ==
    packageAction(r, stage, fr, "POST", "ReinstallPackage", "reinstalled")

H_PinPackageNoDefault(r, stage, fr) ==
    IF stage = 0
    THEN IF checkMethod(r, <<"POST", "OPTIONS">>) # <<>>
         THEN Respond(checkMethod(r, <<"POST", "OPTIONS">>), <<>>)
         ELSE IF r.method = "OPTIONS" THEN Respond(<<>>, <<>>)
         ELSE IF r.name = <<>>
         THEN Respond(<<writeError(400, "VALIDATION_ERROR", NameRequired)>>, <<>>)
         ELSE IF r.action = Lit("unpin") THEN Invoke("UnpinPackage", r.name)
         ELSE Invoke("PinPackage", r.name)
    ELSE IF fr.err # Nil THEN handleBrewError(fr.err)
    ELSE Respond(<<writeJSON(200, PackageActionResponse("success", r.name, r.action))>>,
                 <<>>)

H_PinPackage(r, stage, fr) ==
    LET action == IF r.action = <<>> THEN Lit("pin") ELSE r.action
    IN  IF stage = 0
        THEN IF checkMethod(r, <<"POST", "OPTIONS">>) # <<>>
             THEN Respond(checkMethod(r, <<"POST", "OPTIONS">>), <<>>)
             ELSE IF r.method = "OPTIONS" THEN Respond(<<>>, <<>>)
             ELSE IF r.name = <<>>
             THEN Respond(<<writeError(400, "VALIDATION_ERROR", NameRequired)>>, <<>>)
             ELSE IF action = Lit("unpin") THEN Invoke("UnpinPackage", r.name)
             ELSE Invoke("PinPackage", r.name)
        ELSE IF fr.err # Nil THEN handleBrewError(fr.err)
        ELSE Respond(<<writeJSON(200, PackageActionResponse("success", r.name, action))>>,
                     <<>>)

H_GetPackageUsage(r, stage, fr) ==
    IF stage = 0
    THEN IF checkMethod(r, <<"GET", "OPTIONS">>) # <<>>
         THEN Respond(checkMethod(r, <<"GET", "OPTIONS">>), <<>>)
         ELSE IF r.method = "OPTIONS" THEN Respond(<<>>, <<>>)
         ELSE IF r.name = <<>>
         THEN Respond(<<writeError(400, "VALIDATION_ERROR", NameRequired)>>, <<>>)
         ELSE Invoke("GetPackageUsage", r.name)
    ELSE IF fr.err # Nil THEN handleBrewError(fr.err)
    ELSE Respond(<<writeJSON(200, [type |-> "UsageResponse", usage |-> fr.val])>>, <<>>)

H_SearchPackages(r, stage, fr) ==
    IF stage = 0
    THEN IF checkMethod(r, <<"GET", "OPTIONS">>) # <<>>
         THEN Respond(checkMethod(r, <<"GET", "OPTIONS">>), <<>>)
         ELSE IF r.method = "OPTIONS" THEN Respond(<<>>, <<>>)
         ELSE IF r.q = <<>>
         THEN Respond(<<writeJSON(200, [type |-> "names", list |-> Slice(<<>>)])>>, <<>>)
         ELSE Invoke("Search", r.q)
    ELSE IF fr.err # Nil THEN handleBrewError(fr.err)
    ELSE Respond(<<writeJSON(200, [type |-> "names",
                                   list |-> IF fr.val.isNil THEN Slice(<<>>) ELSE fr.val])>>,
                 <<>>)

H_ListServices(r, stage, fr) ==
    IF stage = 0
    THEN IF checkMethod(r, <<"GET">>) # <<>> THEN Respond(checkMethod(r, <<"GET">>), <<>>)
         ELSE Invoke("ListServices", <<>>)
    ELSE IF fr.err # Nil THEN handleBrewError(fr.err)
    ELSE Respond(<<writeJSON(200, [type |-> "services", list |-> fr.val])>>, <<>>)

H_ControlService(r, stage, fr) ==
    IF stage = 0
    THEN IF checkMethod(r, <<"POST", "OPTIONS">>) # <<>>
         THEN Respond(checkMethod(r, <<"POST", "OPTIONS">>), <<>>)
         ELSE IF r.method = "OPTIONS" THEN Respond(<<>>, <<>>)
         ELSE IF r.name = <<>>
         THEN Respond(<<writeError(400, "VALIDATION_ERROR", NameRequired)>>, <<>>)
         ELSE IF r.action = <<>>
         THEN Respond(<<writeError(400, "VALIDATION_ERROR",
                                   Lit("Query parameter 'action' is required"))>>, <<>>)
         ELSE IF r.action \notin {Lit("start"), Lit("stop"), Lit("restart")}
         THEN Respond(<<writeErrorWithDetails(400, "VALIDATION_ERROR",
                            Lit("Invalid action. Must be one of: start, stop, restart"),
                            <<<<"action", r.action>>>>)>>, <<>>)
         ELSE IF r.action = Lit("start") THEN Invoke("StartService", r.name)
         ELSE IF r.action = Lit("stop") THEN Invoke("StopService", r.name)
         ELSE Invoke("RestartService", r.name)
    ELSE IF fr.err # Nil THEN handleBrewError(fr.err)
    ELSE Respond(<<writeJSON(200, [type |-> "ServiceActionResponse", status |-> "success",
                                   service |-> r.name, action |-> r.action])>>, <<>>)

SystemOperationResponse(message, output) ==
    [type |-> "SystemOperationResponse", message |-> message, output |-> output]

H_HandleSystemUpdate(r, stage, fr) ==
    IF stage = 0
    THEN IF checkMethod(r, <<"POST", "OPTIONS">>) # <<>>
         THEN Respond(checkMethod(r, <<"POST", "OPTIONS">>), <<>>)
         ELSE IF r.method = "OPTIONS" THEN Respond(<<>>, <<>>)
         ELSE Invoke("Update", <<>>)
    ELSE IF fr.err # Nil THEN handleBrewError(fr.err)
    ELSE Respond(<<writeJSON(200, SystemOperationResponse(
                        Lit("Homebrew updated successfully"), fr.val))>>, <<>>)

H_HandleSystemCleanup(r, stage, fr) ==
    IF stage = 0
    THEN IF checkMethod(r, <<"POST", "OPTIONS">>) # <<>>
         THEN Respond(checkMethod(r, <<"POST", "OPTIONS">>), <<>>)
         ELSE IF r.method = "OPTIONS" THEN Respond(<<>>, <<>>)
         ELSE Invoke("Cleanup", <<>>)
    ELSE IF fr.err # Nil THEN handleBrewError(fr.err)
    ELSE Respond(<<writeJSON(200, SystemOperationResponse(
                        Lit("Cleanup completed successfully"), fr.val))>>, <<>>)

H_HandleDoctor(r, stage, fr) ==
    IF stage = 0
    THEN IF checkMethod(r, <<"POST", "OPTIONS">>) # <<>>
         THEN Respond(checkMethod(r, <<"POST", "OPTIONS">>), <<>>)
         ELSE IF r.method = "OPTIONS" THEN Respond(<<>>, <<>>)
         ELSE Invoke("Doctor", <<>>)
    ELSE IF fr.err # Nil THEN handleBrewError(fr.err)
    ELSE Respond(<<writeJSON(200, [type |-> "doctor",
                                   output |-> fr.val.output,
                                   issues |-> fr.val.issues,
                                   isHealthy |-> (Len(fr.val.issues.elems) = 0)])>>, <<>>)

InstallWord == <<"i","n","s","t","a","l","l">>

\* r.pathName is the path segment that follows "packages"
H_InstallPackage(r, stage, fr) ==
    LET name == IF r.pathName = <<>> \/ r.pathName = InstallWord THEN r.name
                ELSE r.pathName
    IN  IF stage = 0
        THEN IF checkMethod(r, <<"POST", "OPTIONS">>) # <<>>
             THEN Respond(checkMethod(r, <<"POST", "OPTIONS">>), <<>>)
             ELSE IF r.method = "OPTIONS" THEN Respond(<<>>, <<>>)
             ELSE IF name = <<>>
             THEN Respond(<<writeError(400, "VALIDATION_ERROR",
                                       Lit("Package name is required"))>>, <<>>)
             ELSE Invoke("InstallPackage", name)
        ELSE IF fr.err # Nil THEN handleBrewError(fr.err)
        ELSE Respond(<<writeJSON(200, PackageActionResponse("success", name,
                                                            Lit("installed")))>>, <<>>)

Handlers ==
    {"ListPackages", "UpgradePackage", "UninstallPackage", "ReinstallPackage",
     "PinPackage", "GetPackageUsage", "SearchPackages", "ListServices",
     "ControlService", "HandleSystemUpdate", "HandleSystemCleanup", "HandleDoctor",
     "InstallPackage"}

\* the method of *Handler that r.handler names
Handle(r, stage, fr) ==
    CASE r.handler = "ListPackages" -> H_ListPackages(r, stage, fr)
      [] r.handler = "UpgradePackage" -> H_UpgradePackage(r, stage, fr)
      [] r.handler = "UninstallPackage" -> H_UninstallPackage(r, stage, fr)
      [] r.handler = "ReinstallPackage" -> H_ReinstallPackage(r, stage, fr)
      [] r.handler = "PinPackage" -> H_PinPackage(r, stage, fr)
      [] r.handler = "GetPackageUsage" -> H_GetPackageUsage(r, stage, fr)
      [] r.handler = "SearchPackages" -> H_SearchPackages(r, stage, fr)
      [] r.handler = "ListServices" -> H_ListServices(r, stage, fr)
      [] r.handler = "ControlService" -> H_ControlService(r, stage, fr)
      [] r.handler = "HandleSystemUpdate" -> H_HandleSystemUpdate(r, stage, fr)
      [] r.handler = "HandleSystemCleanup" -> H_HandleSystemCleanup(r, stage, fr)
      [] r.handler = "HandleDoctor" -> H_HandleDoctor(r, stage, fr)
      [] r.handler = "InstallPackage" -> H_InstallPackage(r, stage, fr)

(***************************************************************************)
(* Inputs of the validator: every string of at most MaxShort characters    *)
(* over InputChars, and each of them followed by a run of one character    *)
(* that brings the length to around maxPackageNameLength (in characters,   *)
(* and, for the two-byte character, in bytes).                             *)
(***************************************************************************)
MaxShort == 2

PadSlack == 2

EAcute == <<LeadByte, ContByte>>

InputChars == {<<"a">>, <<"Z">>, <<"7">>, <<"@">>, <<"-">>, <<" ">>, <<";">>, EAcute}

PadChars == {<<"a">>, <<"-">>, EAcute}

RECURSIVE Words(_)
Words(n) ==
    IF n = 0 THEN {<<>>}
    ELSE LET W == Words(n - 1) IN W \cup {w \o c : w \in W, c \in InputChars}

ShortNames == Words(MaxShort)

PadCounts ==
    ((maxPackageNameLength - PadSlack)..(maxPackageNameLength + PadSlack))
    \cup ((maxPackageNameLength \div 2 - 1)..(maxPackageNameLength \div 2 + 1))

LongNames == {h \o Repeat(c, n) : h \in ShortNames, c \in PadChars, n \in PadCounts}

NameInputs == ShortNames \cup LongNames

Pending == [kind |-> "pending"]

(***************************************************************************)
(* The request being served, at rest                                       *)
(***************************************************************************)
NoProc == [state |-> "none", code |-> 0, stdout |-> NoOutput, stderr |-> <<>>]

SrvIdle ==
    /\ pc = "idle"
    /\ req = [layer |-> "none"]
    /\ call = [op |-> "none"]
    /\ callerCtx = "nil"
    /\ cmdCtx = "nil"
    /\ doneAt = "never"
    /\ proc = NoProc
    /\ waitErr = Pending
    /\ runs = <<>>
    /\ argvLog = <<>>
    /\ httpLog = <<>>
    /\ ret = Pending
    /\ resp = <<>>
    /\ logs = <<>>

(***************************************************************************)
(* validatePackageName applied to one input                                *)
(***************************************************************************)
InitValidate ==
    /\ arg \in NameInputs
    /\ result = Pending
    /\ SrvIdle

ValidateName ==
    /\ result = Pending
    /\ result' = validatePackageName(arg)
    /\ UNCHANGED <<arg, srvVars>>

SpecValidate == InitValidate /\ [][ValidateName]_vars

\* the character of s that starts at byte i
CharAt(s, i) ==
    IF i < Len(s) /\ s[i + 1] = ContByte THEN SubSeq(s, i, i + 1) ELSE <<s[i]>>

\* the name pattern, read character by character
NamePattern(s) ==
    /\ Len(s) >= 1
    /\ \A i \in 1..Len(s) :
          s[i] # ContByte =>
              CharAt(s, i) \in {<<b>> : b \in IF i = 1 THEN HeadClass ELSE TailClass}

\* C8: validatePackageName succeeds for exactly the strings that are non-empty,
\* at most 128 characters long and match the name pattern; every other string
\* gets a ValidationError whose field is "name".
C8_ValidateExactly ==
    result # Pending =>
        /\ (result = NoError) <=>
              /\ arg # <<>>
              /\ CharCount(arg) <= maxPackageNameLength
              /\ NamePattern(arg)
        /\ result # NoError =>
              /\ result.kind = "ValidationError"
              /\ result.field = "name"

\* a name of exactly 128 one-byte characters that matches the pattern has been
\* accepted
C8_Witness ==
    /\ result = NoError
    /\ CharCount(arg) = maxPackageNameLength
    /\ Len(arg) = maxPackageNameLength

\* C9: the empty name fails with the "required" message; every name longer than
\* 128 characters fails with the length message and echoes exactly its first 20
\* characters followed by "...".
C9_ErrorPayload ==
    result # Pending =>
        /\ arg = <<>> => result.kind = "ValidationError" /\ result.message = MsgRequired
        /\ CharCount(arg) > maxPackageNameLength =>
              /\ result.kind = "ValidationError"
              /\ result.message = MsgTooLong
              /\ result.value = FirstChars(arg, ValueEchoLen) \o ELLIPSIS

(***************************************************************************)
(* The environment of one request: what callers send, what brew prints     *)
(* and what the documentation mirror replies.                              *)
(***************************************************************************)
GoodName == <<"g", "o">>

DashName == <<"-", "r", "f">>

SpacedQuery == <<"-", "-", "x", " ", "y">>

LongName == Repeat(<<"a">>, maxPackageNameLength + 1)

Names == {<<>>, GoodName, DashName, LongName}

\* 65 two-byte characters: 130 bytes
WideQuery == Repeat(EAcute, maxPackageNameLength \div 2 + 1)

Queries == {<<>>, GoodName, SpacedQuery, LongName, WideQuery}

Methods == {"GET", "POST", "DELETE", "OPTIONS"}

PinActions == {<<>>, Lit("pin"), Lit("unpin")}

ServiceActions == {<<>>, Lit("start"), Lit("stop"), Lit("restart"), Lit("kill")}

NoParams == [name |-> <<>>, action |-> <<>>, q |-> <<>>, pathName |-> <<>>]

\* the parameters each handler reads, over the inputs above
ParamsOf(h) ==
    CASE h \in {"UpgradePackage", "UninstallPackage", "ReinstallPackage", "GetPackageUsage"}
            -> {[NoParams EXCEPT !.name = n] : n \in Names}
      [] h = "PinPackage"
            -> {[NoParams EXCEPT !.name = n, !.action = a] : n \in Names, a \in PinActions}
      [] h = "ControlService"
            -> {[NoParams EXCEPT !.name = n, !.action = a] :
                    n \in {<<>>, GoodName, DashName}, a \in ServiceActions}
      [] h = "SearchPackages"
            -> {[NoParams EXCEPT !.q = q] : q \in Queries}
      [] h = "InstallPackage"
            -> {[NoParams EXCEPT !.name = n, !.pathName = s] :
                    n \in {<<>>, GoodName}, s \in {InstallWord, DashName, GoodName}}
      [] OTHER -> {NoParams}

HttpRequests ==
    {[layer |-> "http", handler |-> h, method |-> m, name |-> p.name,
      action |-> p.action, q |-> p.q, pathName |-> p.pathName] :
        h \in Handlers, m \in Methods, p \in UNION {ParamsOf(x) : x \in Handlers}}

\* the direct calls of the facade: each method with each input it takes
FacadeCalls ==
    {[op |-> op, name |-> n, stage |-> 0, args |-> <<>>, data |-> NoVal,
      fetched |-> Pending] :
        op \in FacadeOps, n \in Names \cup Queries}

StdoutOK == <<"o", "k", "\n">>

StdoutSearch ==
    ArrowTok \o SPACE \o FormulaeTok \o <<"\n">> \o GoodName \o SPACE \o GoodName

StderrText ==
    WarningHdr \o <<" ", "p", "\n", "\n">> \o ErrorHdr \o <<" ", "/", "h">>

Stderrs == {<<>>, StderrText}

ExitCodes == {0, 1}

PkgGo ==
    [name |-> GoodName, homepage |-> Lit("https://go.dev"),
     installed |-> <<[time |-> 1700000000]>>, installed_size |-> 7,
     install_date |-> NoDate, is_cask |-> FALSE]

PkgCask ==
    [name |-> Lit("vlc"), homepage |-> Lit("https://videolan.org"),
     installed |-> <<>>, installed_size |-> 9,
     install_date |-> NoDate, is_cask |-> FALSE]

\* a cask that has the name of the formula PkgGo
PkgGoCask ==
    [name |-> GoodName, homepage |-> Lit("https://go.example"),
     installed |-> <<[time |-> 0]>>, installed_size |-> 3,
     install_date |-> NoDate, is_cask |-> FALSE]

\* a formula whose JSON object has an "install_date" member, which
\* json.Unmarshal stores in Package.InstallDate, and no installed record
PkgDated ==
    [name |-> Lit("x"), homepage |-> <<>>,
     installed |-> <<>>, installed_size |-> 0,
     install_date |-> [layout |-> "verbatim", unix |-> 0], is_cask |-> FALSE]

SvcGo ==
    [name |-> GoodName, status |-> Lit("started"), user |-> Lit("me"),
     file |-> Lit("/opt/go.plist")]

SvcDb ==
    [name |-> Lit("db"), status |-> Lit("stopped"), user |-> <<>>,
     file |-> Lit("/opt/db.plist")]

\* a status brew does not document
SvcOdd ==
    [name |-> Lit("vlc"), status |-> Lit("Started"), user |-> Lit("me"),
     file |-> <<>>]

SvcErr ==
    [name |-> Lit("x"), status |-> Lit("error"), user |-> Lit("root"),
     file |-> <<>>]

TextOutputs == {Text(<<>>), Text(StdoutOK), Text(StdoutSearch)}

JsonOutputs ==
    {Text(StdoutOK), InfoDoc(<<>>, <<>>), InfoDoc(<<PkgGo>>, <<PkgCask>>),
     InfoDoc(<<PkgCask, PkgGo>>, <<PkgGoCask>>), InfoDoc(<<PkgDated, PkgGo>>, <<>>),
     ServicesDoc(<<>>), ServicesDoc(<<SvcGo>>),
     ServicesDoc(<<SvcDb, SvcGo, SvcOdd, SvcErr>>)}

\* what brew may print for a command: JSON commands are the ones given --json
ProcOutputs(args) ==
    IF \E i \in 1..Len(args) : args[i] \in {Lit("--json=v2"), Lit("--json")}
    THEN JsonOutputs ELSE TextOutputs

CheatText == <<"#", " ", "g", "o", " ", "r", "u", "n">>

Replies ==
    {[failed |-> TRUE, status |-> 0, body |-> <<>>],
     [failed |-> FALSE, status |-> 404, body |-> UnknownTopic],
     [failed |-> FALSE, status |-> 200, body |-> <<>>],
     [failed |-> FALSE, status |-> 200, body |-> UnknownTopic \o SPACE \o GoodName],
     [failed |-> FALSE, status |-> 200, body |-> CheatText]}

(***************************************************************************)
(* Serving one request                                                     *)
(***************************************************************************)
\* runBrewCommand up to the wait inside cmd.Output(): the context is derived,
\* the command is built and started.  Start fails when ctx is already done or
\* when the binary is not found.
StartBrew(c, step, ctx) ==
    /\ call' = [c EXCEPT !.stage = c.stage + 1, !.args = step.args, !.data = step.data]
    /\ argvLog' = Append(argvLog, <<Lit("brew")>> \o step.args)
    /\ cmdCtx' = ctx
    /\ \/ /\ ctx # "nil"
          /\ proc' = NoProc
          /\ doneAt' = "unstarted"
          /\ waitErr' = [output |-> NoOutput, err |-> <<CtxError(ctx)>>]
          /\ pc' = "classify"
       \/ /\ ctx = "nil"
          /\ proc' = [NoProc EXCEPT !.state = "running"]
          /\ doneAt' = "never"
          /\ waitErr' = Pending
          /\ pc' = "wait"
       \/ /\ ctx = "nil"
          /\ proc' = NoProc
          /\ doneAt' = "never"
          /\ waitErr' = [output |-> NoOutput, err |-> <<ExecError>>]
          /\ pc' = "classify"
    /\ UNCHANGED <<httpLog, ret, resp, logs>>

\* fetchCheatSheet up to the wait inside httpClient.Do
StartFetch(c, step) ==
    /\ call' = [c EXCEPT !.stage = c.stage + 1, !.data = step.data]
    /\ httpLog' = Append(httpLog, step.url)
    /\ pc' = "fetch"
    /\ UNCHANGED <<cmdCtx, doneAt, proc, waitErr, argvLog, ret, resp, logs>>

\* the facade method returns; an HTTP handler then writes its response
Finish(r, c, step) ==
    /\ call' = c
    /\ ret' = [val |-> step.val, err |-> step.err]
    /\ pc' = "done"
    /\ IF r.layer = "http"
       THEN /\ resp' = resp \o Handle(r, 1, step).writes
            /\ logs' = logs \o Handle(r, 1, step).logged
       ELSE UNCHANGED <<resp, logs>>
    /\ UNCHANGED <<cmdCtx, doneAt, proc, waitErr, argvLog, httpLog>>

\* the facade method c runs on, given what its last wait returned, until it
\* returns or waits again
Advance(r, c, rr, ctx) ==
    LET step == Facade(c, rr)
    IN  \/ step.k = "ret" /\ Finish(r, c, step)
        \/ step.k = "brew" /\ StartBrew(c, step, ctx)
        \/ step.k = "fetch" /\ StartFetch(c, step)

\* Go code calls a method of the facade
CallFacade ==
    /\ pc = "idle"
    /\ \E c \in FacadeCalls :
          /\ (c.op \in NameOps => c.name \in Names)
          /\ (c.op = "Search" => c.name \in Queries)
          /\ (c.op \notin NameOps \cup {"Search"} => c.name = <<>>)
          /\ req' = [layer |-> "facade"]
          /\ Advance(req', c, Pending, "nil")
    /\ UNCHANGED <<arg, result, callerCtx, runs>>

\* an HTTP request reaches its handler, which answers at once or calls the facade
ServeHTTP ==
    /\ pc = "idle"
    /\ \E r \in HttpRequests :
          /\ [name |-> r.name, action |-> r.action, q |-> r.q, pathName |-> r.pathName]
                \in ParamsOf(r.handler)
          /\ req' = r
          /\ LET h == Handle(r, 0, Pending)
             IN  \/ /\ h.k = "respond"
                    /\ resp' = h.writes
                    /\ logs' = h.logged
                    /\ pc' = "done"
                    /\ UNCHANGED <<call, cmdCtx, doneAt, proc, waitErr, argvLog,
                                   httpLog, ret>>
                 \/ /\ h.k = "invoke"
                    /\ Advance(r, [op |-> h.op, name |-> h.name, stage |-> 0,
                                   args |-> <<>>, data |-> NoVal, fetched |-> Pending],
                               Pending, "nil")
    /\ UNCHANGED <<arg, result, callerCtx, runs>>

\* the brew process exits on its own
ProcExit ==
    /\ pc = "wait"
    /\ proc.state = "running"
    /\ \E code \in ExitCodes, out \in ProcOutputs(call.args), err \in Stderrs :
          proc' = [state |-> "exited", code |-> code, stdout |-> out, stderr |-> err]
    /\ UNCHANGED <<arg, result, pc, req, call, callerCtx, cmdCtx, doneAt, waitErr,
                   runs, argvLog, httpLog, ret, resp, logs>>

\* the timer of context.WithTimeout(ctx, CommandTimeout) fires
InternalTimeout ==
    /\ pc \in {"wait", "classify"}
    /\ cmdCtx = "nil"
    /\ cmdCtx' = "DeadlineExceeded"
    /\ doneAt' = proc.state
    /\ UNCHANGED <<arg, result, pc, req, call, callerCtx, proc, waitErr,
                   runs, argvLog, httpLog, ret, resp, logs>>

\* the caller's context ends: its deadline passes or it is cancelled
CallerDone ==
    /\ pc \in {"wait", "classify", "fetch"}
    /\ callerCtx = "nil"
    /\ \E e \in {"DeadlineExceeded", "Canceled"} :
          /\ callerCtx' = e
          /\ IF pc # "fetch" /\ cmdCtx = "nil"
             THEN cmdCtx' = e /\ doneAt' = proc.state
             ELSE UNCHANGED <<cmdCtx, doneAt>>
    /\ UNCHANGED <<arg, result, pc, req, call, proc, waitErr,
                   runs, argvLog, httpLog, ret, resp, logs>>

\* exec's watcher goroutine kills the process once cmdCtx is done.  The kill
\* reaches the brew process only: subprocesses it started (state "orphans")
\* keep the write ends of the stdout and stderr pipes of cmd.Output() open.
Kill ==
    /\ pc = "wait"
    /\ cmdCtx # "nil"
    /\ proc.state = "running"
    /\ \E err \in Stderrs, st \in {"killed", "orphans"} :
          proc' = [state |-> st, code |-> -1, stdout |-> NoOutput, stderr |-> err]
    /\ UNCHANGED <<arg, result, pc, req, call, callerCtx, cmdCtx, doneAt, waitErr,
                   runs, argvLog, httpLog, ret, resp, logs>>

\* the subprocesses of a killed brew process end and the pipes reach EOF
OrphansExit ==
    /\ pc = "wait"
    /\ proc.state = "orphans"
    /\ proc' = [proc EXCEPT !.state = "killed"]
    /\ UNCHANGED <<arg, result, pc, req, call, callerCtx, cmdCtx, doneAt, waitErr,
                   runs, argvLog, httpLog, ret, resp, logs>>

\* cmd.Output() returns: the process has been waited for and both pipes have
\* been read to EOF (no WaitDelay is set).  A process that exited with status 0 while cmdCtx was
\* done yields nil or the context's error, as the watcher's kill found the
\* process already reaped or not.
WaitReturn ==
    /\ pc = "wait"
    /\ proc.state \in {"exited", "killed"}
    /\ \/ /\ proc.state = "killed" \/ proc.code # 0
          /\ waitErr' = [output |-> proc.stdout,
                         err |-> <<ExitError(proc.code, proc.stderr)>>]
       \/ /\ proc.state = "exited" /\ proc.code = 0
          /\ waitErr' = [output |-> proc.stdout, err |-> Nil]
       \/ /\ proc.state = "exited" /\ proc.code = 0 /\ cmdCtx # "nil"
          /\ waitErr' = [output |-> proc.stdout, err |-> <<CtxError(cmdCtx)>>]
    /\ pc' = "classify"
    /\ UNCHANGED <<arg, result, req, call, callerCtx, cmdCtx, doneAt, proc,
                   runs, argvLog, httpLog, ret, resp, logs>>

\* runBrewCommand reads cmdCtx.Err(), builds its result and returns; the facade
\* method runs on
Classify ==
    /\ pc = "classify"
    /\ LET rr == classify(call.args, waitErr, cmdCtx)
       IN  /\ runs' = Append(runs, [args |-> call.args, proc |-> proc, doneAt |-> doneAt,
                                     ctxErr |-> cmdCtx, waitErr |-> waitErr, ret |-> rr])
           /\ Advance(req, call, rr, callerCtx)
    /\ UNCHANGED <<arg, result, req, callerCtx>>

\* httpClient.Do returns and fetchCheatSheet with it; a request whose context
\* has ended fails
FetchReturn ==
    /\ pc = "fetch"
    /\ \E reply \in Replies :
          /\ (callerCtx # "nil" => reply.failed)
          /\ Advance(req, [call EXCEPT !.fetched = fetchCheatSheet(reply)],
                     fetchCheatSheet(reply), callerCtx)
    /\ UNCHANGED <<arg, result, req, callerCtx, runs>>

Init ==
    /\ arg = <<>>
    /\ result = Pending
    /\ SrvIdle

Next ==
    \/ CallFacade
    \/ ServeHTTP
    \/ ProcExit
    \/ InternalTimeout
    \/ CallerDone
    \/ Kill
    \/ OrphansExit
    \/ WaitReturn
    \/ Classify
    \/ FetchReturn

Spec == Init /\ [][Next]_vars

(***************************************************************************)
(* handleBrewError applied to one error                                    *)
(***************************************************************************)
MaxChain == 3

\* errors that wrap nothing, and errors that wrap a cause
LeafErrors ==
    {ValidationError("name", DashName, MsgBadChars),
     [kind |-> "ValidationError", field |-> "query",
      value |-> Prefix(LongName, ValueEchoLen) \o ELLIPSIS, message |-> "search query too long"],
     TimeoutError(Lit("doctor"), CommandTimeout),
     ExitError(1, StderrText), ExecError, CtxError("Canceled"), JsonError[1]}

WrapErrors ==
    {CommandError(Lit("upgrade"), <<GoodName>>, StderrText),
     [kind |-> "wrapError", prefix |-> "failed to parse brew info output"]}

RECURSIVE ErrChains(_)
ErrChains(n) ==
    IF n = 1 THEN {<<e>> : e \in LeafErrors \cup WrapErrors}
    ELSE LET shorter == ErrChains(n - 1)
         IN  shorter \cup {<<w>> \o c : w \in WrapErrors, c \in shorter}

InitHandleErr ==
    /\ arg \in ErrChains(MaxChain)
    /\ result = Pending
    /\ SrvIdle

ApplyHandleBrewError ==
    /\ result = Pending
    /\ result' = handleBrewError(arg)
    /\ UNCHANGED <<arg, srvVars>>

SpecHandleErr == InitHandleErr /\ [][ApplyHandleBrewError]_vars

(***************************************************************************)
(* Claims                                                                  *)
(***************************************************************************)
\* a name the validation rules of the specification accept
ValidName(s) ==
    /\ s # <<>>
    /\ CharCount(s) <= maxPackageNameLength
    /\ NamePattern(s)

IsKind(err, kind) == err # Nil /\ err[1].kind = kind

\* C1: a facade operation that takes a name and is given one that fails
\* validation returns a ValidationError at once: no brew command is built or
\* started and no request is sent to the documentation mirror.
C1_InvalidNameStopsEarly ==
    (call.op \in NameOps /\ ~ValidName(call.name)) =>
        /\ pc = "done"
        /\ IsKind(ret.err, "ValidationError")
        /\ Len(ret.err) = 1
        /\ argvLog = <<>>
        /\ httpLog = <<>>
        /\ proc.state = "none"
        /\ runs = <<>>

C1_Witness ==
    /\ call.op = "GetPackageUsage"
    /\ call.name = DashName
    /\ pc = "done"
    /\ IsKind(ret.err, "ValidationError")

\* the argument vectors the operations are documented to use
FixedArgs(op) ==
    CASE op = "ListInstalled" -> {<<Lit("info"), Lit("--installed"), Lit("--json=v2")>>}
      [] op = "UpgradePackage" -> {<<Lit("upgrade")>>}
      [] op = "UninstallPackage" -> {<<Lit("uninstall")>>}
      [] op = "ReinstallPackage" -> {<<Lit("reinstall")>>}
      [] op = "PinPackage" -> {<<Lit("pin")>>}
      [] op = "UnpinPackage" -> {<<Lit("unpin")>>}
      [] op = "InstallPackage" -> {<<Lit("install")>>}
      [] op = "Update" -> {<<Lit("update")>>}
      [] op = "Cleanup" -> {<<Lit("cleanup"), Lit("--prune=all")>>}
      [] op = "Doctor" -> {<<Lit("doctor")>>}
      [] op = "GetPackageSize" -> {<<Lit("info"), Lit("--json=v2")>>}
      [] op = "ListServices" -> {<<Lit("services"), Lit("list"), Lit("--json")>>,
                                 <<Lit("info"), Lit("--installed"), Lit("--json=v2")>>}
      [] op = "StartService" -> {<<Lit("services"), Lit("start")>>}
      [] op = "StopService" -> {<<Lit("services"), Lit("stop")>>}
      [] op = "RestartService" -> {<<Lit("services"), Lit("restart")>>}
      [] op = "Search" -> {<<Lit("search")>>}
      [] op = "GetPackageUsage" -> {<<Lit("info")>>}

\* C2: every command built is the binary "brew" followed by the operation's
\* fixed tokens and, for an operation that takes a name or a query, that input
\* as exactly one argument, unchanged.
C2_ArgvIsExplicit ==
    \A i \in 1..Len(argvLog) :
        /\ argvLog[i][1] = Lit("brew")
        /\ \E fixed \in FixedArgs(call.op) :
              Tail(argvLog[i]) =
                  IF call.op \in NameOps \cup {"Search"} THEN Append(fixed, call.name)
                  ELSE fixed

C2_Witness ==
    /\ call.op = "Search"
    /\ call.name = SpacedQuery
    /\ argvLog = <<<<Lit("brew"), Lit("search"), SpacedQuery>>>>
    /\ proc.state = "running"

\* the deadline that governs run r expired while the brew process was running
ExpiredWhileRunning(r) == r.doneAt = "running" /\ r.ctxErr = "DeadlineExceeded"

C4_OwnExitIsCommandError ==
    \A i \in 1..Len(runs) :
        (/\ runs[i].proc.state = "exited"
         /\ runs[i].proc.code # 0
         /\ runs[i].doneAt # "running") =>
            /\ IsKind(runs[i].ret.err, "CommandError")
            /\ runs[i].ret.err[1] =
                  CommandError(runs[i].args[1], Tail(runs[i].args), runs[i].proc.stderr)

\* C5: when runBrewCommand("doctor") returns a CommandError, Doctor returns no
\* error and the CommandError's stderr as the text, parsed into issues; when it
\* returns another error, Doctor returns that error and no issues.
C5_DoctorSwallowsCommandError ==
    (call.op = "Doctor" /\ pc = "done" /\ runs[1].ret.err # Nil) =>
        IF IsKind(runs[1].ret.err, "CommandError")
        THEN /\ ret.err = Nil
             /\ ret.val.output = runs[1].ret.err[1].stderr
             /\ ret.val.issues = parseDoctorOutput(runs[1].ret.err[1].stderr)
             /\ (ret.val.output = StderrText => Len(ret.val.issues.elems) = 2)
        ELSE /\ ret.err = runs[1].ret.err
             /\ ret.val.issues = NilSlice

C5_Witness ==
    /\ call.op = "Doctor"
    /\ pc = "done"
    /\ IsKind(runs[1].ret.err, "CommandError")
    /\ ret.val.output = StderrText
    /\ Len(ret.val.issues.elems) = 2

HasKind(err, kind) == \E i \in 1..Len(err) : err[i].kind = kind

\* C6: handleBrewError writes exactly one response for every non-nil error:
\* 400 with details {field} when the error is or wraps a ValidationError, else
\* 504 for a TimeoutError, else 500 with the fixed message for a CommandError,
\* else 500 with the other fixed message.
C6_StatusMappingTotal ==
    (result # Pending /\ arg # Nil) =>
        /\ Len(result.writes) = 1
        /\ LET w == result.writes[1]
           IN  IF HasKind(arg, "ValidationError")
               THEN /\ w.status = 400
                    /\ Len(w.body.details) = 1
                    /\ w.body.details[1][1] = "field"
                    /\ w.body.details[1][2] \in {"name", "query", "action"}
               ELSE IF HasKind(arg, "TimeoutError")
               THEN w.status = 504 /\ w.body.error = TimeoutMessage
               ELSE IF HasKind(arg, "CommandError")
               THEN w.status = 500 /\ w.body.error = CommandFailedMessage
               ELSE w.status = 500 /\ w.body.error = UnexpectedMessage

C6_Witness ==
    /\ result # Pending
    /\ Len(arg) = MaxChain
    /\ arg[1].kind = "CommandError"
    /\ ~HasKind(arg, "ValidationError")
    /\ ~HasKind(arg, "TimeoutError")
    /\ result.writes[1].status = 500

\* the texts a response body carries
IssueTexts(issues) == {issues.elems[i].message : i \in 1..Len(issues.elems)}

BodyTexts(b) ==
    CASE b.type = "APIError" ->
            {b.error} \cup {b.details[i][2] : i \in {j \in 1..Len(b.details) : b.details[j][1] # "field"}}
      [] b.type = "PackageActionResponse" -> {b.package, b.action}
      [] b.type = "ServiceActionResponse" -> {b.service, b.action}
      [] b.type = "SystemOperationResponse" -> {b.message, b.output}
      [] b.type = "UsageResponse" -> {b.usage}
      [] b.type = "doctor" -> {b.output} \cup IssueTexts(b.issues)
      [] b.type = "names" -> {b.list.elems[i] : i \in 1..Len(b.list.elems)}
      [] b.type = "packages" ->
            UNION {{b.list.elems[i].name, b.list.elems[i].homepage} :
                      i \in 1..Len(b.list.elems)}
      [] b.type = "services" ->
            UNION {{b.list.elems[i].name, b.list.elems[i].status, b.list.elems[i].user,
                    b.list.elems[i].plist, b.list.elems[i].homepage} :
                      i \in 1..Len(b.list.elems)}

\* the stderr texts cmd.Output() captured for this request
CapturedStderr ==
    {runs[i].waitErr.err[1].stderr :
        i \in {j \in 1..Len(runs) : IsKind(runs[j].waitErr.err, "ExitError")}} \ {<<>>}

\* response number i carries captured stderr
Leaks(i) ==
    \E s \in CapturedStderr : \E txt \in BodyTexts(resp[i].body) : Contains(txt, s)

\* C7 as claimed: no response body of any handler, on success or failure,
\* contains stderr text captured from a brew process.
C7_NoStderrInAnyBody == \A i \in 1..Len(resp) : ~Leaks(i)

\* C7 as amended: the only response that contains captured stderr is the 200
\* response of HandleDoctor, whose output is the CommandError's stderr; every
\* error response is free of it, and a CommandError that is answered with an
\* error has its stderr in the server log.
C7_StderrOnlyInDoctorOutput ==
    /\ \A i \in 1..Len(resp) :
          Leaks(i) =>
              /\ req.handler = "HandleDoctor"
              /\ resp[i].status = 200
              /\ resp[i].body.output \in CapturedStderr
    /\ (pc = "done" /\ req.layer = "http" /\ ret # Pending
            /\ ErrorsAs(ret.err, "CommandError")) =>
          /\ Len(resp) = 1
          /\ resp[1].body.error = CommandFailedMessage
          /\ \A s \in CapturedStderr : \E k \in 1..Len(logs) : Contains(logs[k], s)

\* a CommandError with stderr has been answered with the generic 500
C7_Witness ==
    /\ pc = "done"
    /\ req.layer = "http"
    /\ ret # Pending
    /\ IsKind(ret.err, "CommandError")
    /\ ret.err[1].stderr = StderrText
    /\ resp[1].status = 500
    /\ ~Leaks(1)

\* C10: Search with a non-empty query of at most 128 characters returns an empty
\* list and no error when brew fails with a CommandError, and the error when
\* brew fails with a TimeoutError; a query longer than 128 characters gets a
\* ValidationError and brew is not invoked.
C10_SearchErrors ==
    (call.op = "Search" /\ pc = "done") =>
        /\ CharCount(call.name) > maxPackageNameLength =>
              /\ IsKind(ret.err, "ValidationError")
              /\ argvLog = <<>>
              /\ proc.state = "none"
        /\ (call.name # <<>> /\ CharCount(call.name) <= maxPackageNameLength
                /\ runs # <<>>) =>
              /\ IsKind(runs[1].ret.err, "CommandError") =>
                    ret.err = Nil /\ ret.val = Slice(<<>>)
              /\ IsKind(runs[1].ret.err, "TimeoutError") =>
                    ret.err = runs[1].ret.err

C10_Witness ==
    /\ call.op = "Search"
    /\ pc = "done"
    /\ call.name = SpacedQuery
    /\ IsKind(runs[1].ret.err, "CommandError")
    /\ ret = [val |-> Slice(<<>>), err |-> Nil]

\* C11: Search with the empty query returns an empty result and no error and
\* starts no brew process; the search handler answers an absent query with 200
\* and an empty list without calling the facade.
C11_EmptyQueryIsNoError ==
    /\ (call.op = "Search" /\ call.name = <<>>) =>
          /\ pc = "done"
          /\ ret.err = Nil
          /\ ret.val.elems = <<>>
          /\ argvLog = <<>>
          /\ runs = <<>>
          /\ proc.state = "none"
    /\ (req.layer = "http" /\ req.handler = "SearchPackages" /\ req.method = "GET"
            /\ req.q = <<>>) =>
          /\ pc = "done"
          /\ call.op = "none"
          /\ argvLog = <<>>
          /\ resp = <<[status |-> 200, body |-> [type |-> "names", list |-> Slice(<<>>)]]>>

C11_Witness ==
    /\ req.layer = "facade"
    /\ call.op = "Search"
    /\ call.name = <<>>
    /\ pc = "done"
    /\ ret.err = Nil

\* the cheat-sheet fetch gave something GetPackageUsage can return
GoodSheet(f) == f.err = Nil /\ f.body # <<>> /\ ~Contains(f.body, UnknownTopic)

\* C12: GetPackageUsage with a valid name never returns an error.  It returns
\* the cheat sheet exactly when the fetch succeeded with non-empty content that
\* does not contain "Unknown topic"; otherwise it runs brew info <name> and
\* returns that output behind the preamble or, when brew info fails in any way,
\* the fixed apology.
C12_UsageNeverFails ==
    (call.op = "GetPackageUsage" /\ ValidName(call.name) /\ pc = "done") =>
        /\ ret.err = Nil
        /\ httpLog = <<CheatURL(call.name)>>
        /\ IF GoodSheet(call.fetched)
           THEN /\ ret.val = call.fetched.body
                /\ argvLog = <<>>
           ELSE /\ argvLog = <<<<Lit("brew"), Lit("info"), call.name>>>>
                /\ Len(runs) = 1
                /\ IF runs[1].ret.err = Nil
                   THEN ret.val = InfoPreamble \o runs[1].ret.output.text
                   ELSE ret.val = ApologyText

\* the fetch failed and brew info timed out: the apology is returned
C12_Witness ==
    /\ call.op = "GetPackageUsage"
    /\ pc = "done"
    /\ call.fetched # Pending
    /\ call.fetched.err # Nil
    /\ IsKind(runs[1].ret.err, "TimeoutError")
    /\ ret = [val |-> ApologyText, err |-> Nil]

\* C13: ListInstalled, when its document decodes with formulae F and casks C,
\* returns |F| + |C| packages: F in order with is_cask false, then C in order
\* with is_cask true, names that occur in both kept twice.
C13_FormulaeThenCasks ==
    (/\ call.op = "ListInstalled"
     /\ pc = "done"
     /\ runs[1].ret.err = Nil
     /\ runs[1].ret.output.kind = "info") =>
        LET F == runs[1].ret.output.formulae
            C == runs[1].ret.output.casks
            L == ret.val.elems
        IN  /\ ret.err = Nil
            /\ Len(L) = Len(F) + Len(C)
            /\ \A i \in 1..Len(F) :
                  /\ L[i].name = F[i].name
                  /\ L[i].homepage = F[i].homepage
                  /\ L[i].is_cask = FALSE
            /\ \A i \in 1..Len(C) :
                  /\ L[Len(F) + i].name = C[i].name
                  /\ L[Len(F) + i].homepage = C[i].homepage
                  /\ L[Len(F) + i].is_cask = TRUE

\* two formulae and a cask named like the second formula have been listed
C13_Witness ==
    /\ call.op = "ListInstalled"
    /\ pc = "done"
    /\ ret.err = Nil
    /\ Len(ret.val.elems) = 3
    /\ ret.val.elems[2].name = ret.val.elems[3].name
    /\ ~ret.val.elems[2].is_cask
    /\ ret.val.elems[3].is_cask

\* the packages the secondary listing of ListServices produced (none when it
\* failed or did not decode)
ListedPackages ==
    IF Len(runs) = 2 /\ runs[2].ret.err = Nil /\ runs[2].ret.output.kind = "info"
    THEN runs[2].ret.output.formulae \o runs[2].ret.output.casks
    ELSE <<>>

HomepagesOf(name) ==
    {ListedPackages[j].homepage :
        j \in {k \in 1..Len(ListedPackages) : ListedPackages[k].name = name}}

\* the primary call of ListServices succeeded and its document decoded
PrimaryDecoded ==
    /\ call.op = "ListServices"
    /\ pc = "done"
    /\ runs[1].ret.err = Nil
    /\ runs[1].ret.output.kind = "services"

\* C14: when `services list --json` succeeds and decodes, ListServices returns
\* no error and one Service per entry in order, whatever the secondary package
\* listing did; a homepage is that of a listed package of the same name, and is
\* empty when the listing failed or has no such package.
C14_EnrichmentNeverFails ==
    PrimaryDecoded =>
        LET E == runs[1].ret.output.entries
            S == ret.val.elems
        IN  /\ ret.err = Nil
            /\ Len(runs) = 2
            /\ Len(S) = Len(E)
            /\ \A i \in 1..Len(E) :
                  /\ S[i].name = E[i].name
                  /\ S[i].status = E[i].status
                  /\ S[i].user = E[i].user
                  /\ S[i].plist = E[i].file
                  /\ IF HomepagesOf(E[i].name) = {} THEN S[i].homepage = <<>>
                     ELSE S[i].homepage \in HomepagesOf(E[i].name)

\* four services are returned although the secondary listing timed out
C14_Witness ==
    /\ PrimaryDecoded
    /\ IsKind(runs[2].ret.err, "TimeoutError")
    /\ ret.err = Nil
    /\ Len(ret.val.elems) = 4
    /\ \A i \in 1..4 : ret.val.elems[i].homepage = <<>>

\* C15: every Service ListServices returns has running true exactly when its
\* status is the literal "started", and carries the status brew printed.
C15_RunningIffStarted ==
    PrimaryDecoded =>
        \A i \in 1..Len(ret.val.elems) :
            /\ ret.val.elems[i].running = (ret.val.elems[i].status = Lit("started"))
            /\ ret.val.elems[i].status = runs[1].ret.output.entries[i].status

\* services with the statuses stopped, started, Started and error are returned
C15_Witness ==
    /\ PrimaryDecoded
    /\ Len(ret.val.elems) = 4
    /\ ret.val.elems[2].running
    /\ ret.val.elems[3].status = Lit("Started")
    /\ ~ret.val.elems[3].running
    /\ ~ret.val.elems[4].running

\* the pin request that differs from r only in spelling the default action out
\* (or in leaving it out)
PinTwin(r) ==
    [r EXCEPT !.action = IF r.action = <<>> THEN Lit("pin")
                         ELSE IF r.action = Lit("pin") THEN <<>>
                         ELSE r.action]

\* a pin request that reaches the facade
PinRequest ==
    /\ req.layer = "http"
    /\ req.handler = "PinPackage"
    /\ req.method = "POST"
    /\ req.name # <<>>

\* C16: the pin handler called without an action behaves as with action=pin:
\* the same facade operation (brew pin <name>) is invoked and the same response
\* (status, package, action "pin") is written; action=unpin invokes brew unpin
\* <name>.
C16_PinIsDefaultAction ==
    PinRequest =>
        /\ Handle(req, 0, Pending) = Handle(PinTwin(req), 0, Pending)
        /\ ret # Pending => Handle(req, 1, ret) = Handle(PinTwin(req), 1, ret)
        /\ call.op = IF req.action = Lit("unpin") THEN "UnpinPackage" ELSE "PinPackage"
        /\ call.name = req.name
        /\ \A i \in 1..Len(argvLog) :
              argvLog[i] = <<Lit("brew"),
                             IF req.action = Lit("unpin") THEN Lit("unpin") ELSE Lit("pin"),
                             req.name>>
        /\ (pc = "done" /\ ret.err = Nil) =>
              resp = <<[status |-> 200,
                        body |-> PackageActionResponse(
                                    "success", req.name,
                                    IF req.action = Lit("unpin") THEN Lit("unpin")
                                    ELSE Lit("pin"))]>>

\* a pin request without an action has been answered with action "pin"
C16_Witness ==
    /\ PinRequest
    /\ req.action = <<>>
    /\ pc = "done"
    /\ ret.err = Nil
    /\ argvLog = <<<<Lit("brew"), Lit("pin"), GoodName>>>>
    /\ resp[1].body.action = Lit("pin")

\* the first brew command of the operation, its own, failed with a CommandError
OwnCommandFailed ==
    /\ call.op \in FacadeOps
    /\ pc = "done"
    /\ runs # <<>>
    /\ IsKind(runs[1].ret.err, "CommandError")

\* C17 as claimed: Doctor is the only operation that answers a CommandError of
\* its own command with a non-error result; every other operation returns an
\* error.
C17_OnlyDoctorSwallows ==
    (OwnCommandFailed /\ call.op # "Doctor") => ret.err # Nil

\* C17 as amended: Doctor, Search and GetPackageUsage answer a CommandError of
\* their own command with a non-error result (the diagnostic text, the empty
\* list, the fixed apology); every other operation returns that CommandError.
C17_ThreeOperationsSwallow ==
    OwnCommandFailed =>
        CASE call.op = "Doctor" ->
                ret.err = Nil /\ ret.val.output = runs[1].ret.err[1].stderr
          [] call.op = "Search" ->
                ret.err = Nil /\ ret.val = Slice(<<>>)
          [] call.op = "GetPackageUsage" ->
                ret.err = Nil /\ ret.val = ApologyText
          [] OTHER ->
                ret.err = runs[1].ret.err /\ Len(runs) = 1

\* brew upgrade failed and UpgradePackage returned the CommandError
C17_Witness ==
    /\ OwnCommandFailed
    /\ call.op = "UpgradePackage"
    /\ IsKind(ret.err, "CommandError")
    /\ ret.err[1].command = Lit("upgrade")
    /\ ret.err[1].args = <<GoodName>>

\* some runBrewCommand call of the operation that has returned timed out
SomeRunTimedOut ==
    \E i \in 1..Len(runs) : IsKind(runs[i].ret.err, "TimeoutError")

\* C18 as claimed: no facade operation returns success when a runBrewCommand
\* call it made returned a TimeoutError.
C18_TimeoutNeverSwallowed ==
    (call.op \in FacadeOps /\ pc = "done" /\ SomeRunTimedOut) =>
        ErrorsAs(ret.err, "TimeoutError")

\* C18 as amended: a TimeoutError ends the operation and is returned by it,
\* except that GetPackageUsage answers it with the fixed apology and that
\* ListServices ignores it when it comes from the secondary package listing
\* (the services are returned without homepages).
C18_TimeoutSwallowedInTwoPlaces ==
    (call.op \in FacadeOps /\ pc = "done") =>
        \A i \in 1..Len(runs) :
            IsKind(runs[i].ret.err, "TimeoutError") =>
                /\ i = Len(runs)
                /\ IF call.op = "GetPackageUsage"
                   THEN ret = [val |-> ApologyText, err |-> Nil]
                   ELSE IF call.op = "ListServices" /\ i = 2
                   THEN /\ ret.err = Nil
                        /\ \A j \in 1..Len(ret.val.elems) : ret.val.elems[j].homepage = <<>>
                   ELSE ret.err = runs[i].ret.err

\* brew search timed out and Search returned the TimeoutError
C18_Witness ==
    /\ call.op = "Search"
    /\ pc = "done"
    /\ runs # <<>>
    /\ IsKind(runs[1].ret.err, "TimeoutError")
    /\ ret.err = runs[1].ret.err

\* run r failed because the caller cancelled: the context was cancelled before
\* the process was started, or while it ran and the process was killed for it
EndedByCancellation(r) ==
    /\ r.ctxErr = "Canceled"
    /\ r.ret.err # Nil
    /\ \/ r.doneAt = "unstarted"
       \/ r.doneAt = "running" /\ r.proc.state = "killed"

\* C19: a brew call that the caller's cancellation ends is not reported as a
\* CommandError, and Search and Doctor do not turn it into an empty or
\* diagnostic success.
C19_CancellationPropagates ==
    /\ \A i \in 1..Len(runs) :
          EndedByCancellation(runs[i]) => ~ErrorsAs(runs[i].ret.err, "CommandError")
    /\ (call.op \in {"Search", "Doctor"} /\ pc = "done" /\ runs # <<>>
            /\ EndedByCancellation(runs[1])) =>
          ret.err # Nil

\* runBrewCommand classifies and returns as soon as cmd.Output() has returned
ClassifyDue == pc = "classify"

\* httpClient.Do returns within the client's Timeout
FetchReturnDue == pc = "fetch"

\* The steps the program and its clocks take by themselves are weakly fair:
\* the timer of cmdCtx fires, the watcher goroutine kills, cmd.Output()
\* returns, runBrewCommand classifies, httpClient.Do returns.  Classify and
\* FetchReturn are enabled exactly when they are due and are no longer due once
\* taken, so their weak fairness is stated as []<>~(due).  Nothing makes brew
\* or the subprocesses it leaves behind end: ProcExit and OrphansExit are not
\* fair.
SpecLive ==
    /\ Spec
    /\ WF_vars(InternalTimeout)
    /\ WF_vars(Kill)
    /\ WF_vars(WaitReturn)
    /\ []<>~ClassifyDue
    /\ []<>~FetchReturnDue

\* C20: every facade operation that waits for a brew process or for the
\* documentation mirror eventually returns.
C20_EveryOperationReturns ==
    (pc \in {"wait", "classify", "fetch"}) ~> (pc = "done")

(***************************************************************************)
(* parseSearchOutput applied to one text                                   *)
(***************************************************************************)
MaxTokens == 3

WgetTok == <<"w","g","e","t">>

CurlTok == <<"c","u","r","l">>

VlcTok == <<"v","l","c">>

\* not a header: "Cask" is a proper prefix of one
CaskTok == <<"C","a","s","k">>

SearchTokens == {ArrowTok, FormulaeTok, CasksTok, CaskTok, WgetTok, CurlTok, VlcTok}

Separators == {<<" ">>, <<"\n">>, <<" ", "\n", "\t">>}

Margins == {<<>>, <<"\n">>}

RECURSIVE TokenLists(_)
TokenLists(n) ==
    IF n = 0 THEN {<<>>}
    ELSE LET shorter == TokenLists(n - 1)
         IN  shorter \cup {Append(l, t) : l \in shorter, t \in SearchTokens}

\* what brew search prints for a query that matches formulae and casks
ExampleSearchText ==
    Join(<<ArrowTok, FormulaeTok>>, SPACE) \o <<"\n">>
        \o Join(<<WgetTok, CurlTok>>, SPACE) \o <<"\n">>
        \o Join(<<ArrowTok, CasksTok>>, SPACE) \o <<"\n">> \o VlcTok

SearchTexts ==
    {m \o Join(l, sep) \o m : l \in TokenLists(MaxTokens), sep \in Separators, m \in Margins}
        \cup {ExampleSearchText}

InitSearchParse ==
    /\ arg \in SearchTexts
    /\ result = Pending
    /\ SrvIdle

ApplyParseSearchOutput ==
    /\ result = Pending
    /\ result' = parseSearchOutput(arg)
    /\ UNCHANGED <<arg, srvVars>>

SpecSearchParse == InitSearchParse /\ [][ApplyParseSearchOutput]_vars

\* the maximal runs of non-space bytes of s, each as <<first, last>>
TokenSpans(s) ==
    {sp \in (1..Len(s)) \X (1..Len(s)) :
        /\ sp[1] <= sp[2]
        /\ \A k \in sp[1]..sp[2] : ~IsSpace(s[k])
        /\ sp[1] = 1 \/ IsSpace(s[sp[1] - 1])
        /\ sp[2] = Len(s) \/ IsSpace(s[sp[2] + 1])}

HeaderTokens == {ArrowTok, FormulaeTok, CasksTok}

\* the tokens of s that are not section headers
KeptTokens(s) ==
    {SubSeq(s, sp[1], sp[2]) : sp \in TokenSpans(s)} \ HeaderTokens

\* where token t first starts in s
FirstAt(s, t) ==
    LET at == {sp[1] : sp \in {x \in TokenSpans(s) : SubSeq(s, x[1], x[2]) = t}}
    IN  CHOOSE b \in at : \A c \in at : b <= c

\* C23: parseSearchOutput returns exactly the whitespace-separated tokens of its
\* input that are not "==>", "Formulae" or "Casks", each once, in the order of
\* their first occurrences; the example text yields wget, curl, vlc.
C23_TokensOnceInFirstSeenOrder ==
    result # Pending =>
        LET r == result.elems
        IN  /\ {r[i] : i \in 1..Len(r)} = KeptTokens(arg)
            /\ \A i \in 1..Len(r) : \A j \in (i + 1)..Len(r) :
                  FirstAt(arg, r[i]) < FirstAt(arg, r[j])
            /\ arg = ExampleSearchText => r = <<WgetTok, CurlTok, VlcTok>>

\* a text in which a token is repeated after another one has been parsed
C23_Witness ==
    /\ result # Pending
    /\ Len(result.elems) = 2
    /\ Cardinality(TokenSpans(arg)) = 3
    /\ HeaderTokens \cap {SubSeq(arg, sp[1], sp[2]) : sp \in TokenSpans(arg)} = {}

\* C24: for a text that is empty or holds only whitespace and header tokens the
\* parser returns an empty list that is not nil.
C24_EmptyResultIsNotNil ==
    (result # Pending /\ KeptTokens(arg) = {}) =>
        /\ result.elems = <<>>
        /\ ~result.isNil

(***************************************************************************)
(* parseDoctorOutput applied to one text                                   *)
(***************************************************************************)
MaxLines == 3

WarnFooLine == WarningHdr \o <<" ","f","o","o"," ","b","a","r">>

ErrBazLine == ErrorHdr \o <<" ","b","a","z">>

QuxLine == <<"q","u","x">>

\* a header whose only mention of an error is in capitals
WarnCapsLine == WarningHdr \o <<" ","E","R","R","O","R","S">>

\* a continuation line with blanks around it
PaddedLine == <<" ","i","t","\t">>

\* a blank line that is not empty
SpacesLine == <<" "," ">>

DoctorLineSet ==
    {<<>>, SpacesLine, WarnFooLine, ErrBazLine, WarnCapsLine, QuxLine, PaddedLine}

RECURSIVE LineLists(_)
LineLists(n) ==
    IF n = 0 THEN {<<>>}
    ELSE LET shorter == LineLists(n - 1)
         IN  shorter \cup {Append(l, t) : l \in shorter, t \in DoctorLineSet}

NEWLINE == <<"\n">>

ExampleDoctorText ==
    Join(<<WarnFooLine, <<>>, ErrBazLine, QuxLine>>, NEWLINE) \o NEWLINE

DoctorTexts ==
    {Join(l, NEWLINE) \o e : l \in LineLists(MaxLines), e \in {<<>>, NEWLINE}}
        \cup {ExampleDoctorText}

InitDoctorParse ==
    /\ arg \in DoctorTexts
    /\ result = Pending
    /\ SrvIdle

ApplyParseDoctorOutput ==
    /\ result = Pending
    /\ result' = parseDoctorOutput(arg)
    /\ UNCHANGED <<arg, srvVars>>

SpecDoctorParse == InitDoctorParse /\ [][ApplyParseDoctorOutput]_vars

\* the lines of s, each without its surrounding whitespace
TrimmedLines(s) == [i \in 1..Len(SplitLines(s)) |-> TrimSpace(SplitLines(s)[i])]

IsHeaderLine(l) == HasPrefix(l, WarningHdr) \/ HasPrefix(l, ErrorHdr)

\* the header lines of L, and the last line of the issue that header line i opens:
\* the lines after it up to the next blank line or header
HeaderAt(L) == {i \in 1..Len(L) : IsHeaderLine(L[i])}

IssueEnd(L, i) ==
    LET ends == {e \in i..Len(L) :
                    \A k \in (i + 1)..e : L[k] # <<>> /\ ~IsHeaderLine(L[k])}
    IN  CHOOSE e \in ends : \A f \in ends : f <= e

\* the k-th header line of L
NthHeader(L, k) ==
    CHOOSE i \in HeaderAt(L) : Cardinality({j \in HeaderAt(L) : j <= i}) = k

\* the lines that belong to an issue
InIssue(L) == {j \in 1..Len(L) : \E i \in HeaderAt(L) : i <= j /\ j <= IssueEnd(L, i)}

\* the non-blank lines that belong to none
LooseLines(L) == {j \in 1..Len(L) : L[j] # <<>> /\ j \notin InIssue(L)}

\* the elements of sequence L at the indices of set S, in order
Pick(L, S) ==
    [k \in 1..Cardinality(S) |->
        L[CHOOSE i \in S : Cardinality({j \in S : j <= i}) = k]]

\* C25: the text of every non-blank line appears in the message of an issue.
C25_EveryLineInSomeIssue ==
    result # Pending =>
        \A j \in 1..Len(TrimmedLines(arg)) :
            TrimmedLines(arg)[j] # <<>> =>
                \E k \in 1..Len(result.elems) :
                    Contains(result.elems[k].message, TrimmedLines(arg)[j])

\* C25, as the code has it: a line is appended only to a non-empty accumulator.
\* The messages of the issues, joined, are the header lines and the lines that
\* follow a header with no blank line in between; a non-blank line met while
\* the accumulator is empty is in no message.
C25_LinesOfOpenIssuesOnly ==
    result # Pending =>
        LET L == TrimmedLines(arg)
            r == result.elems
        IN  /\ Join([k \in 1..Len(r) |-> r[k].message], SPACE) = Join(Pick(L, InIssue(L)), SPACE)
            /\ (HeaderAt(L) = {} /\ LooseLines(L) # {}) => r = <<>>

\* a text with a line that was dropped and a line that was appended
C25_Witness ==
    /\ result # Pending
    /\ LooseLines(TrimmedLines(arg)) # {}
    /\ \E i \in HeaderAt(TrimmedLines(arg)) : IssueEnd(TrimmedLines(arg), i) > i

\* C26: one issue per header line, in the order of the text; its message is
\* that line and the lines up to the next blank line, header or end of input,
\* joined by spaces; its type is "error" exactly when the message contains
\* "error" in any case, else "warning".  The example text yields its two issues.
C26_IssuesInOrder ==
    result # Pending =>
        LET L == TrimmedLines(arg)
            r == result.elems
        IN  /\ Len(r) = Cardinality(HeaderAt(L))
            /\ \A k \in 1..Len(r) :
                  /\ r[k].message =
                        Join(SubSeq(L, NthHeader(L, k), IssueEnd(L, NthHeader(L, k))), SPACE)
                  /\ r[k].type \in {"error", "warning"}
                  /\ r[k].type = "error" <=>
                        \E p \in 1..Len(r[k].message) :
                            \E q \in p..Len(r[k].message) :
                                ToLower(SubSeq(r[k].message, p, q)) = <<"e","r","r","o","r">>
            /\ arg = ExampleDoctorText =>
                  r = <<[type |-> "warning", message |-> WarnFooLine],
                        [type |-> "error", message |-> ErrBazLine \o SPACE \o QuxLine]>>

\* a header flushed a pending issue, and an issue was typed by capitals alone
C26_Witness ==
    /\ result # Pending
    /\ Len(result.elems) = 2
    /\ result.elems[1] = [type |-> "error", message |-> WarnCapsLine \o SPACE \o QuxLine]
    /\ HeaderAt(TrimmedLines(arg)) = {1, 3}

\* the brew info document ListInstalled decoded, once it has returned a list
InstalledSource == runs[1].ret.output.formulae \o runs[1].ret.output.casks

HasListed ==
    /\ call.op = "ListInstalled"
    /\ pc = "done"
    /\ ret.err = Nil

\* C27: a package ListInstalled returns has an install date exactly when its
\* first installed-version record exists with a timestamp greater than 0, and
\* then the date is that timestamp in RFC 3339.
C27_InstallDateOnlyDerived ==
    HasListed =>
        \A i \in 1..Len(ret.val.elems) :
            LET src == InstalledSource[i]
                dated == Len(src.installed) > 0 /\ src.installed[1].time > 0
            IN  /\ (ret.val.elems[i].install_date # NoDate) <=> dated
                /\ dated =>
                      ret.val.elems[i].install_date = FormatRFC3339(src.installed[1].time)

\* the arguments of command v that are not fixed tokens of the operation: they
\* come from the caller
SuppliedArgs(v) ==
    {v[k] : k \in 2..Len(v)} \
        UNION {{fixed[j] : j \in 1..Len(fixed)} : fixed \in FixedArgs(call.op)}

\* C28: every caller-supplied argument of a brew command has passed the name
\* allow-list; none begins with "-" or contains whitespace.
C28_SuppliedArgsAreValidNames ==
    \A i \in 1..Len(argvLog) :
        \A a \in SuppliedArgs(argvLog[i]) :
            /\ ValidName(a)
            /\ a[1] # "-"
            /\ \A k \in 1..Len(a) : ~IsSpace(a[k])

\* C29: the doctor endpoint answers isHealthy = true only when the brew doctor
\* process was started, ran to its end and exited with status 0.
C29_HealthyOnlyAfterCleanExit ==
    (req.layer = "http" /\ req.handler = "HandleDoctor") =>
        \A i \in 1..Len(resp) :
            (resp[i].status = 200 /\ resp[i].body.isHealthy) =>
                /\ runs # <<>>
                /\ runs[1].proc.state = "exited"
                /\ runs[1].proc.code = 0
                /\ runs[1].waitErr.err = Nil

(***************************************************************************)
(* Route dispatch (main.go, registerRoutes) applied to one request for a   *)
(* path under /api/packages/, up to the handler's call of the facade       *)
(***************************************************************************)
PackagesPrefix == <<"/","a","p","i","/","p","a","c","k","a","g","e","s","/">>

UpgradeWord == <<"u","p","g","r","a","d","e">>

UninstallWord == <<"u","n","i","n","s","t","a","l","l">>

ReinstallWord == <<"r","e","i","n","s","t","a","l","l">>

PinWord == <<"p","i","n">>

UnpinWord == <<"u","n","p","i","n">>

UsageWord == <<"u","s","a","g","e">>

SearchWord == <<"s","e","a","r","c","h">>

\* strings.Split(s, "/")
RECURSIVE SplitSlash(_)
SplitSlash(s) ==
    LET at == {i \in 1..Len(s) : s[i] = "/"}
    IN  IF at = {} THEN <<s>>
        ELSE LET i == CHOOSE k \in at : \A j \in at : k <= j
             IN  <<SubSeq(s, 1, i - 1)>> \o SplitSlash(SubSeq(s, i + 1, Len(s)))

\* http.NotFound
NotFound == Respond(<<writeJSON(404, Lit("404 page not found"))>>, <<>>)

\* the request a handler sees: r.URL.Path, r.Method and the query parameters
RoutedRequest(handler, r, name) ==
    [layer |-> "http", handler |-> handler, method |-> r.method, name |-> name,
     action |-> r.action, q |-> <<>>,
     pathName |-> SplitSlash(SubSeq(r.path, Len(PackagesPrefix) + 1, Len(r.path)))[1]]

\* the patterns registered without a trailing slash match their path only
ExactRoutes ==
    {<<UpgradeWord, "UpgradePackage">>, <<UninstallWord, "UninstallPackage">>,
     <<ReinstallWord, "ReinstallPackage">>, <<PinWord, "PinPackage">>,
     <<UsageWord, "GetPackageUsage">>, <<SearchWord, "SearchPackages">>,
     <<InstallWord, "InstallPackage">>}

\* the handler function registered for "/api/packages/"
dynamicRoute(r) ==
    LET path == SubSeq(r.path, Len(PackagesPrefix) + 1, Len(r.path))
        parts == SplitSlash(path)
    IN  IF Len(parts) >= 2
        THEN LET name == parts[1]
                 action == parts[2]
             IN  CASE action = UpgradeWord ->
                        Handle(RoutedRequest("UpgradePackage", r, name), 0, Pending)
                   [] action = UninstallWord ->
                        Handle(RoutedRequest("UninstallPackage", r, name), 0, Pending)
                   [] action = ReinstallWord ->
                        Handle(RoutedRequest("ReinstallPackage", r, name), 0, Pending)
                   [] action = InstallWord ->
                        Handle(RoutedRequest("InstallPackage", r, name), 0, Pending)
                   [] action = PinWord ->
                        Handle(RoutedRequest("PinPackage", r, name), 0, Pending)
                   [] OTHER -> NotFound
        ELSE NotFound

\* mux.ServeHTTP for a path that starts with "/api/packages/": the exact
\* pattern if there is one, else the subtree pattern
registerRoutes(r) ==
    LET path == SubSeq(r.path, Len(PackagesPrefix) + 1, Len(r.path))
    IN  IF \E e \in ExactRoutes : e[1] = path
        THEN Handle(RoutedRequest((CHOOSE e \in ExactRoutes : e[1] = path)[2], r, r.name),
                    0, Pending)
        ELSE dynamicRoute(r)

\* package names the UI shows, and the last path segment of a request
CardNames == {GoodName, VlcTok, DashName, UpgradeWord, <<"g","o","@","1",".","2">>}

RouteActions ==
    {UpgradeWord, UninstallWord, ReinstallWord, InstallWord, PinWord, UnpinWord,
     <<"i","n","f","o">>}

\* handleAction of PackageCard: fetch(`.../api/packages/${pkg.name}/${action}`,
\* {method: 'POST'}), and the same paths under the other methods
CardRequests ==
    {[path |-> PackagesPrefix \o n \o <<"/">> \o a, method |-> m, name |-> <<>>,
      action |-> <<>>, card |-> n, verb |-> a] :
        n \in CardNames, a \in RouteActions, m \in Methods}

\* requests for the patterns without a name segment, as their handlers document
QueryRequests ==
    {[path |-> PackagesPrefix \o e[1], method |-> m, name |-> n,
      action |-> <<>>, card |-> <<>>, verb |-> e[1]] :
        e \in ExactRoutes, m \in {"POST", "DELETE"}, n \in {<<>>, GoodName}}

InitRoute ==
    /\ arg \in CardRequests \cup QueryRequests
    /\ result = Pending
    /\ SrvIdle

ApplyRegisterRoutes ==
    /\ result = Pending
    /\ result' = registerRoutes(arg)
    /\ UNCHANGED <<arg, srvVars>>

SpecRoute == InitRoute /\ [][ApplyRegisterRoutes]_vars

\* the facade operation each action of the card stands for
CardOperation(a) ==
    CASE a = UpgradeWord -> "UpgradePackage"
      [] a = PinWord -> "PinPackage"
      [] a = UnpinWord -> "UnpinPackage"
      [] a = UninstallWord -> "UninstallPackage"

\* C30: every POST /api/packages/{name}/{action} the package card issues, for
\* action in upgrade, pin, unpin, uninstall, passes the route dispatch and the
\* handler's method check and has the matching facade operation invoked for
\* that name.
C30_CardActionsReachFacade ==
    (/\ result # Pending
     /\ arg.card # <<>>
     /\ arg.method = "POST"
     /\ arg.verb \in {UpgradeWord, PinWord, UnpinWord, UninstallWord}) =>
        result = Invoke(CardOperation(arg.verb), arg.card)

(***************************************************************************)
(* Middleware chain (part_002): ChainMiddleware applied to a list of       *)
(* middleware, and one request served by the handler it returns.  A        *)
(* handler is the sequence of the middleware around the mux, outermost     *)
(* first; an outcome is what a ServeHTTP call did by the time it returned  *)
(* or panicked.                                                            *)
(***************************************************************************)
MaxMiddlewares == 3

Middlewares == {"CORS", "Logging", "Recovery"}

\* middlewares[i](handler)
wrapHandler(mw, handler) == <<mw>> \o handler

\* for i := len(middlewares) - 1; i >= 0; i-- { handler = middlewares[i](handler) }
RECURSIVE chainLoop(_, _, _)
chainLoop(handler, middlewares, i) ==
    IF i < 1 THEN handler
    ELSE chainLoop(wrapHandler(middlewares[i], handler), middlewares, i - 1)

ChainMiddleware(handler, middlewares) == chainLoop(handler, middlewares, Len(middlewares))

\* status 0: no header written yet
Served(status, log) == [panicked |-> FALSE, status |-> status, log |-> log]

Panicked(log) == [panicked |-> TRUE, status |-> 0, log |-> log]

\* the mux and the handlers behind it
muxServeHTTP(r) == IF r.panicIn = "handler" THEN Panicked(<<>>) ELSE Served(200, <<>>)

\* next is what next.ServeHTTP(w, r) does if it is called
CORSMiddleware(r, next) ==
    IF r.panicIn = "CORS" THEN Panicked(<<>>)
    ELSE IF r.method = "OPTIONS" THEN Served(204, <<>>)
    ELSE next

LoggingMiddleware(r, next) ==
    IF r.panicIn = "Logging" THEN Panicked(<<>>)
    ELSE IF next.panicked THEN next
    ELSE LET status == IF next.status = 0 THEN 200 ELSE next.status
             level == IF status >= 500 THEN "ERROR"
                      ELSE IF status >= 400 THEN "WARN" ELSE "INFO"
         IN  Served(next.status,
                    Append(next.log, [level |-> level, method |-> r.method,
                                      status |-> status]))

RecoveryMiddleware(r, next) ==
    LET inner == IF r.panicIn = "Recovery" THEN Panicked(<<>>) ELSE next
    IN  IF inner.panicked
        THEN Served(500, Append(inner.log, [level |-> "PANIC", method |-> r.method,
                                            status |-> 500]))
        ELSE inner

\* handler.ServeHTTP(w, r)
RECURSIVE serveHTTP(_, _)
serveHTTP(handler, r) ==
    IF handler = <<>> THEN muxServeHTTP(r)
    ELSE CASE handler[1] = "CORS" -> CORSMiddleware(r, serveHTTP(Tail(handler), r))
           [] handler[1] = "Logging" -> LoggingMiddleware(r, serveHTTP(Tail(handler), r))
           [] handler[1] = "Recovery" -> RecoveryMiddleware(r, serveHTTP(Tail(handler), r))

RECURSIVE MiddlewareLists(_)
MiddlewareLists(n) ==
    IF n = 0 THEN {<<>>}
    ELSE LET shorter == MiddlewareLists(n - 1)
         IN  shorter \cup {Append(l, m) : l \in shorter, m \in Middlewares}

\* api.ChainMiddleware(mux, CORSMiddlewareFunc(corsConfig), LoggingMiddleware,
\* RecoveryMiddleware) of main
MainMiddlewares == <<"CORS", "Logging", "Recovery">>

ChainInputs ==
    {[middlewares |-> l, method |-> m, panicIn |-> p] :
        l \in MiddlewareLists(MaxMiddlewares), m \in Methods,
        p \in {"none", "handler"} \cup Middlewares}

InitChain ==
    /\ arg \in ChainInputs
    /\ result = Pending
    /\ SrvIdle

ApplyChainMiddleware ==
    /\ result = Pending
    /\ result' = [handler |-> ChainMiddleware(<<>>, arg.middlewares),
                  outcome |-> serveHTTP(ChainMiddleware(<<>>, arg.middlewares), arg)]
    /\ UNCHANGED <<arg, srvVars>>

SpecChain == InitChain /\ [][ApplyChainMiddleware]_vars

\* C22: the chain main builds is Recovery(Logging(CORS(mux))): the last
\* middleware passed is the outermost, so a panic in the handler, in the
\* logging middleware or in the CORS middleware is recovered, and the logging
\* middleware sees every request the CORS middleware answers.
C22_LastPassedIsOutermost ==
    (result # Pending /\ arg.middlewares = MainMiddlewares) =>
        /\ result.handler = <<"Recovery", "Logging", "CORS">>
        /\ ~result.outcome.panicked
        /\ (arg.panicIn = "none" /\ arg.method = "OPTIONS") =>
              \E i \in 1..Len(result.outcome.log) : result.outcome.log[i].status = 204

(***************************************************************************)
(* Server life cycle (main.go, main): the listener, the requests being     *)
(* served and the shutdown on SIGINT/SIGTERM.  The state is kept in        *)
(* result; arg is the configuration.  Time is counted in seconds and       *)
(* passes TickSeconds at a time.                                           *)
(***************************************************************************)
MaxConns == 2

\* main.go: shutdownTimeout, in seconds
shutdownTimeout == 30

\* NewHandler: requestTimeout, in seconds
requestTimeout == 300

\* the step of the clock
TickSeconds == 10

\* how long a handler runs: a listing, and an upgrade that takes all the time
\* its context allows
RequestSeconds == {TickSeconds, 4 * TickSeconds, requestTimeout}

NoConn == [state |-> "none", left |-> 0]

ActiveConns(srv) == {c \in 1..MaxConns : srv.conns[c].state = "active"}

InitShutdown ==
    /\ arg = [shutdownTimeout |-> shutdownTimeout]
    /\ result = [main |-> "serving", listener |-> "starting", elapsed |-> 0,
                 conns |-> [c \in 1..MaxConns |-> NoConn]]
    /\ SrvIdle

\* server.ListenAndServe() binds the port
ListenAndServe ==
    /\ result.main = "serving"
    /\ result.listener = "starting"
    /\ result' = [result EXCEPT !.listener = "open"]
    /\ UNCHANGED <<arg, srvVars>>

\* server.ListenAndServe() fails and main takes the serverErrors case
ListenFails ==
    /\ result.main = "serving"
    /\ result.listener = "starting"
    /\ result' = [result EXCEPT !.main = "fatal", !.listener = "closed"]
    /\ UNCHANGED <<arg, srvVars>>

\* the server accepts a request and starts its handler
AcceptRequest ==
    /\ result.main = "serving"
    /\ result.listener = "open"
    /\ \E c \in 1..MaxConns, d \in RequestSeconds :
          /\ result.conns[c].state = "none"
          /\ result' = [result EXCEPT !.conns[c] = [state |-> "active", left |-> d]]
    /\ UNCHANGED <<arg, srvVars>>

\* a handler returns and its response is complete
HandlerReturns ==
    /\ result.main \in {"serving", "shutting"}
    /\ \E c \in ActiveConns(result) :
          /\ result.conns[c].left = 0
          /\ result' = [result EXCEPT !.conns[c].state = "done"]
    /\ UNCHANGED <<arg, srvVars>>

Tick ==
    /\ result.main \in {"serving", "shutting"}
    /\ ActiveConns(result) # {}
    /\ \A c \in ActiveConns(result) : result.conns[c].left > 0
    /\ result.main = "shutting" => result.elapsed < arg.shutdownTimeout
    /\ result' = [result EXCEPT
                    !.elapsed = IF result.main = "shutting" THEN @ + TickSeconds ELSE @,
                    !.conns = [c \in 1..MaxConns |->
                                  IF c \in ActiveConns(result)
                                  THEN [state |-> "active",
                                        left |-> IF result.conns[c].left > TickSeconds
                                                 THEN result.conns[c].left - TickSeconds
                                                 ELSE 0]
                                  ELSE result.conns[c]]]
    /\ UNCHANGED <<arg, srvVars>>

\* a signal arrives on the shutdown channel: main calls server.Shutdown(ctx),
\* which closes the listener
ShutdownSignal ==
    /\ result.main = "serving"
    /\ result' = [result EXCEPT !.main = "shutting", !.listener = "closed",
                                !.elapsed = 0]
    /\ UNCHANGED <<arg, srvVars>>

\* server.Shutdown returns nil once no request is being served; main returns
ShutdownReturns ==
    /\ result.main = "shutting"
    /\ ActiveConns(result) = {}
    /\ result' = [result EXCEPT !.main = "exited"]
    /\ UNCHANGED <<arg, srvVars>>

\* the context of server.Shutdown expires: Shutdown returns its error, main
\* calls server.Close(), which closes the connections in use, and returns
ShutdownExpires ==
    /\ result.main = "shutting"
    /\ result.elapsed >= arg.shutdownTimeout
    /\ ActiveConns(result) # {}
    /\ result' = [result EXCEPT
                    !.main = "exited",
                    !.conns = [c \in 1..MaxConns |->
                                  IF c \in ActiveConns(result)
                                  THEN [result.conns[c] EXCEPT !.state = "cut"]
                                  ELSE result.conns[c]]]
    /\ UNCHANGED <<arg, srvVars>>

NextShutdown ==
    \/ ListenAndServe
    \/ ListenFails
    \/ AcceptRequest
    \/ HandlerReturns
    \/ Tick
    \/ ShutdownSignal
    \/ ShutdownReturns
    \/ ShutdownExpires

SpecShutdown == InitShutdown /\ [][NextShutdown]_vars

\* C21: once the signal has been received no request is accepted, and every
\* request in flight at that moment has run to completion when the process
\* exits.
C21_InFlightRequestsComplete ==
    /\ result.main \in {"shutting", "exited"} => result.listener = "closed"
    /\ result.main = "exited" =>
          \A c \in 1..MaxConns : result.conns[c].state \in {"none", "done"}

====
